---------------------------- MODULE Spec2Model ----------------------------
(***************************************************************************)
(* The three-stage understanding pipeline of ai-agile-dap's ai-engine:     *)
(* NLPProcessorV2 (intent parsing with the external refiner and its call   *)
(* counter) and SQLGenerator (template filling, the external optimisation  *)
(* step, the safety check and the cost estimate).                          *)
(*                                                                         *)
(* Python str values are TLA+ strings; Len, SubSeq and \o act on them as   *)
(* on sequences of characters.  Scores that the code keeps as floats are   *)
(* kept as exact integers: safety scores in tenths, confidences in         *)
(* thousandths.                                                            *)
(***************************************************************************)
EXTENDS Integers, Sequences, FiniteSets, TLC

VARIABLES
    \* ---- SQLGenerator.generate_sql, one call at a time
    gen_pc,          \* "idle" | "optimizing" (awaiting _gpt_optimize_sql) | "done"
    intent,          \* the QueryIntent argument of the call in progress
    schema_info,     \* the schema descriptor argument of the call in progress
    template_sql,    \* the result of _generate_template_sql
    optimized_sql,   \* the result of _gpt_optimize_sql
    safety_score,    \* the result of _check_sql_safety, in tenths
    sql_outcome,     \* what generate_sql gave its caller
    \* ---- NLPProcessorV2 and its concurrent calls of parse_query_intent
    openai_api_key,     \* config.openai_api_key
    api_call_count,     \* self.api_call_count
    api_cost_tracking,  \* self.api_cost_tracking
    clock,              \* datetime.now(), in whole days
    refiner_calls,      \* the requests the completion service has received, and
                        \* how many of them ended in an exception at the caller
    refiner_budget,     \* the refiner calls the model may still issue
    parse,              \* per request, the frame of its parse_query_intent call
    \* ---- _pattern_classify on its own
    classify_query,     \* the text handed to _pattern_classify
    classify_type,      \* what _pattern_classify returned for it, "none" before the call
    \* ---- ChartRecommender.recommend_chart, one call at a time
    chart_query_type,   \* intent.query_type of the call
    chart_preview,      \* the data_preview argument of the call
    chart_result,       \* what recommend_chart gave its caller, "none" before the call
    \* ---- AIEngine.process_query, one request at a time
    process,            \* the frame of the process_query call in progress
    \* ---- a function of the components called on its own
    call                \* the frame of the call: the function, its arguments, its result

sql_vars ==
    <<gen_pc, intent, schema_info, template_sql, optimized_sql, safety_score, sql_outcome>>

nlp_vars ==
    <<openai_api_key, api_call_count, api_cost_tracking, clock, refiner_calls,
      refiner_budget, parse>>

classify_vars == <<classify_query, classify_type>>

chart_vars == <<chart_query_type, chart_preview, chart_result>>

\* the variables of the components called on their own
fn_vars == <<classify_vars, chart_vars>>

vars ==
    <<gen_pc, intent, schema_info, template_sql, optimized_sql, safety_score, sql_outcome,
      openai_api_key, api_call_count, api_cost_tracking, clock, refiner_calls,
      refiner_budget, parse, classify_query, classify_type,
      chart_query_type, chart_preview, chart_result, process, call>>

-----------------------------------------------------------------------------
(* Python str operations *)

LowerLetters == <<"a","b","c","d","e","f","g","h","i","j","k","l","m",
                  "n","o","p","q","r","s","t","u","v","w","x","y","z">>
UpperLetters == <<"A","B","C","D","E","F","G","H","I","J","K","L","M",
                  "N","O","P","Q","R","S","T","U","V","W","X","Y","Z">>

UpperMap == [c \in {LowerLetters[i] : i \in 1..26} |->
                UpperLetters[CHOOSE i \in 1..26 : LowerLetters[i] = c]]
LowerMap == [c \in {UpperLetters[i] : i \in 1..26} |->
                LowerLetters[CHOOSE i \in 1..26 : UpperLetters[i] = c]]

RECURSIVE MapChars(_, _)
MapChars(s, m) ==
    IF Len(s) = 0 THEN ""
    ELSE IF Len(s) = 1 THEN (IF s \in DOMAIN m THEN m[s] ELSE s)
    ELSE LET h == Len(s) \div 2
         IN  MapChars(SubSeq(s, 1, h), m) \o MapChars(SubSeq(s, h + 1, Len(s)), m)

\* str.upper() and str.lower()
Upper(s) == MapChars(s, UpperMap)
Lower(s) == MapChars(s, LowerMap)

\* k in t
Contains(t, k) ==
    \E i \in 1..(Len(t) - Len(k) + 1) : SubSeq(t, i, i + Len(k) - 1) = k

\* the index of the first occurrence of k in t at or after from, 0 if none
IndexFrom(t, k, from) ==
    LET hits == {i \in from..(Len(t) - Len(k) + 1) : SubSeq(t, i, i + Len(k) - 1) = k}
    IN  IF hits = {} THEN 0 ELSE CHOOSE i \in hits : \A j \in hits : i <= j

\* t.count(k): the non-overlapping occurrences of k in t, scanning from the left
RECURSIVE CountFrom(_, _, _)
CountFrom(t, k, from) ==
    LET i == IndexFrom(t, k, from)
    IN  IF i = 0 THEN 0 ELSE 1 + CountFrom(t, k, i + Len(k))
Count(t, k) == CountFrom(t, k, 1)

WhitespaceChars == {" ", "\n", "\t", "\r"}

\* str.strip()
Strip(s) ==
    LET keep == {i \in 1..Len(s) : SubSeq(s, i, i) \notin WhitespaceChars}
    IN  IF keep = {} THEN ""
        ELSE SubSeq(s, CHOOSE i \in keep : \A j \in keep : i <= j,
                       CHOOSE i \in keep : \A j \in keep : i >= j)

\* sep.join(items)
RECURSIVE Join(_, _)
Join(items, sep) ==
    IF Len(items) = 0 THEN ""
    ELSE IF Len(items) = 1 THEN items[1]
    ELSE items[1] \o sep \o Join(Tail(items), sep)

Digits == <<"0","1","2","3","4","5","6","7","8","9">>

\* str(n) of a non-negative int
RECURSIVE IntToStr(_)
IntToStr(n) ==
    IF n < 10 THEN Digits[n + 1] ELSE IntToStr(n \div 10) \o Digits[(n % 10) + 1]

\* Optional[str]: None is <<>>, a value s is <<s>>
None == <<>>
Some(s) == <<s>>

-----------------------------------------------------------------------------
(* models.py *)

\* the values of QueryType
QueryTypes == {"trend", "comparison", "ranking", "statistics", "proportion"}

\* an entry of QueryIntent.filters: the key with a str or an int value
StrFilter(key, value) == [key |-> key, kind |-> "str", s |-> value, n |-> 0]
IntFilter(key, value) == [key |-> key, kind |-> "int", s |-> "", n |-> value]

-----------------------------------------------------------------------------
(* SQLGenerator *)

dangerous_keywords ==
    <<"DROP", "DELETE", "TRUNCATE", "ALTER", "CREATE", "INSERT",
      "UPDATE", "EXEC", "EXECUTE", "GRANT", "REVOKE">>

\* str.format of the five templates; p is sql_params
trend_template(p) ==
    "\n            SELECT " \o p.time_dimension \o ", " \o p.metrics \o
    "\n            FROM " \o p.table \o
    "\n            WHERE " \o p.time_filter \o
    "\n            GROUP BY " \o p.time_dimension \o
    "\n            ORDER BY " \o p.time_dimension \o
    "\n            "

comparison_template(p) ==
    "\n            SELECT " \o p.dimensions \o ", " \o p.metrics \o
    "\n            FROM " \o p.table \o
    "\n            WHERE " \o p.filters \o
    "\n            GROUP BY " \o p.dimensions \o
    "\n            ORDER BY " \o p.metrics \o " DESC" \o
    "\n            "

ranking_template(p) ==
    "\n            SELECT " \o p.dimensions \o ", " \o p.metrics \o
    "\n            FROM " \o p.table \o
    "\n            WHERE " \o p.filters \o
    "\n            GROUP BY " \o p.dimensions \o
    "\n            ORDER BY " \o p.metrics \o " DESC" \o
    "\n            LIMIT " \o p.limit \o
    "\n            "

statistics_template(p) ==
    "\n            SELECT " \o
    "\n                COUNT(*) as total_count," \o
    "\n                AVG(" \o p.metric \o ") as avg_value," \o
    "\n                SUM(" \o p.metric \o ") as sum_value," \o
    "\n                MAX(" \o p.metric \o ") as max_value," \o
    "\n                MIN(" \o p.metric \o ") as min_value" \o
    "\n            FROM " \o p.table \o
    "\n            WHERE " \o p.filters \o
    "\n            "

proportion_template(p) ==
    "\n            SELECT " \o
    "\n                " \o p.dimension \o "," \o
    "\n                " \o p.metric \o "," \o
    "\n                ROUND(" \o p.metric \o " * 100.0 / SUM(" \o p.metric \o
        ") OVER (), 2) as percentage" \o
    "\n            FROM " \o p.table \o
    "\n            WHERE " \o p.filters \o
    "\n            GROUP BY " \o p.dimension \o
    "\n            ORDER BY " \o p.metric \o " DESC" \o
    "\n            "

\* the templates with the time filter joined to the generic filter
sql_templates_time_filtered(query_type, p) ==
    CASE query_type = "trend"      -> trend_template(p)
      [] query_type = "comparison" ->
            comparison_template([p EXCEPT !.filters = @ \o " AND " \o p.time_filter])
      [] query_type = "ranking"    ->
            ranking_template([p EXCEPT !.filters = @ \o " AND " \o p.time_filter])
      [] query_type = "proportion" ->
            proportion_template([p EXCEPT !.filters = @ \o " AND " \o p.time_filter])
      [] OTHER                     ->
            statistics_template([p EXCEPT !.filters = @ \o " AND " \o p.time_filter])

\* self.sql_templates.get(query_type, self.sql_templates["statistics"]) filled with p
sql_templates(query_type, p) ==
    CASE query_type = "trend"      -> trend_template(p)
      [] query_type = "comparison" -> comparison_template(p)
      [] query_type = "ranking"    -> ranking_template(p)
      [] query_type = "proportion" -> proportion_template(p)
      [] OTHER                     -> statistics_template(p)

\* every column related to the entity: the search without its break
RECURSIVE all_related_columns(_, _)
all_related_columns(entity_lower, available_columns) ==
    IF Len(available_columns) = 0 THEN <<>>
    ELSE LET column == Head(available_columns)
         IN  (IF Contains(Lower(column), entity_lower) \/ Contains(entity_lower, Lower(column))
              THEN <<column>> ELSE <<>>)
             \o all_related_columns(entity_lower, Tail(available_columns))

\* the first column related to the entity, as <<column>>, or <<>>
RECURSIVE first_related_column(_, _)
first_related_column(entity_lower, available_columns) ==
    IF Len(available_columns) = 0 THEN <<>>
    ELSE LET column == Head(available_columns)
         IN  IF Contains(Lower(column), entity_lower) \/ Contains(entity_lower, Lower(column))
             THEN <<column>>
             ELSE first_related_column(entity_lower, Tail(available_columns))

RECURSIVE _map_entities_to_columns(_, _)
_map_entities_to_columns(entities, available_columns) ==
    IF Len(entities) = 0 THEN <<>>
    ELSE first_related_column(Lower(Head(entities)), available_columns)
         \o _map_entities_to_columns(Tail(entities), available_columns)

\* one condition of _build_where_conditions; a value is a str or an int
where_condition(f) ==
    IF f.kind = "str" THEN f.key \o " LIKE '%" \o f.s \o "%'"
    ELSE f.key \o " = " \o IntToStr(f.n)

\* filters is the dict in insertion order, a sequence of items
_build_where_conditions(filters, available_columns) ==
    IF Len(filters) = 0 THEN "1=1"
    ELSE Join([i \in 1..Len(filters) |-> where_condition(filters[i])], " AND ")

\* the first column whose lower-cased name contains one of the keywords, as <<column>>
RECURSIVE first_column_with(_, _)
first_column_with(keywords, available_columns) ==
    IF Len(available_columns) = 0 THEN <<>>
    ELSE LET column == Head(available_columns)
         IN  IF \E kw \in keywords : Contains(Lower(column), kw)
             THEN <<column>>
             ELSE first_column_with(keywords, Tail(available_columns))

time_filters(time_column) ==
    [k \in {"today", "yesterday", "this week", "last week", "this month", "last month"} |->
        CASE k = "today" -> time_column \o " >= CURRENT_DATE"
          [] k = "yesterday" ->
                time_column \o " >= CURRENT_DATE - INTERVAL '1 day' AND "
                \o time_column \o " < CURRENT_DATE"
          [] k = "this week" -> time_column \o " >= DATE_TRUNC('week', CURRENT_DATE)"
          [] k = "last week" ->
                time_column \o " >= DATE_TRUNC('week', CURRENT_DATE - INTERVAL '1 week') AND "
                \o time_column \o " < DATE_TRUNC('week', CURRENT_DATE)"
          [] k = "this month" -> time_column \o " >= DATE_TRUNC('month', CURRENT_DATE)"
          [] k = "last month" ->
                time_column \o " >= DATE_TRUNC('month', CURRENT_DATE - INTERVAL '1 month') AND "
                \o time_column \o " < DATE_TRUNC('month', CURRENT_DATE)"]

_build_time_filter(time_range, available_columns) ==
    IF time_range = None \/ time_range = Some("") THEN "1=1"
    ELSE LET found == first_column_with({"date", "time", "created", "updated"},
                                        available_columns)
         IN  IF found = <<>> THEN "1=1"
             ELSE LET table == time_filters(found[1])
                      key == Lower(time_range[1])
                  IN  IF key \in DOMAIN table THEN table[key] ELSE "1=1"

_get_time_dimension(available_columns) ==
    LET found == first_column_with({"date", "time", "created"}, available_columns)
    IN  IF found = <<>> THEN "created_at" ELSE found[1]

\* schema_info.get(key, default)
schema_get(schema, key, default) ==
    IF key \in DOMAIN schema THEN schema[key] ELSE default

_generate_template_sql(it, schema) ==
    LET main_table == schema_get(schema, "main_table", "data_table")
        available_columns == schema_get(schema, "columns", <<>>)
        dimensions == _map_entities_to_columns(it.dimensions, available_columns)
        metrics == _map_entities_to_columns(it.metrics, available_columns)
        filters == _build_where_conditions(it.filters, available_columns)
        time_filter == _build_time_filter(it.time_range, available_columns)
        sql_params ==
            [table |-> main_table,
             dimensions |-> IF Len(dimensions) > 0 THEN Join(dimensions, ", ") ELSE "1",
             metrics |-> IF Len(metrics) > 0 THEN Join(metrics, ", ") ELSE "COUNT(*)",
             metric |-> IF Len(metrics) > 0 THEN metrics[1] ELSE "sales_amount",
             dimension |-> IF Len(dimensions) > 0 THEN dimensions[1] ELSE "category",
             time_dimension |-> _get_time_dimension(available_columns),
             filters |-> IF filters # "" THEN filters ELSE "1=1",
             time_filter |-> IF time_filter # "" THEN time_filter ELSE "1=1",
             limit |-> "10"]
    IN  Strip(sql_templates(it.query_type, sql_params))

\* The response of the completion service to _gpt_optimize_sql:
\*   [kind |-> "error"]           the call raised (timeout, network, no content)
\*   [kind |-> "echo", fenced]    the base statement unchanged, bare or in a fenced sql block
\*   [kind |-> "text", content]   any other text
\* the code fence of three backquotes; a TLA+ string cannot hold a backquote, so
\* the character ~ stands for it in every text of the model
Fence == "~~~"

response_content(base_sql, response) ==
    CASE response.kind = "echo" ->
            IF response.fenced THEN Fence \o "sql\n" \o base_sql \o "\n" \o Fence
            ELSE base_sql
      [] OTHER -> response.content

\* re.search of the fenced sql block in content (re.DOTALL, lazy): <<group(1)>>, or <<>>
sql_block(content) ==
    LET open == IndexFrom(content, Fence \o "sql\n", 1)
        close == IF open = 0 THEN 0 ELSE IndexFrom(content, "\n" \o Fence, open + 7)
    IN  IF open = 0 \/ close = 0 THEN <<>>
        ELSE <<SubSeq(content, open + 7, close - 1)>>

\* sqlparse.parse(sql) is an empty tuple exactly for the empty string
sqlparse_parsed(sql) == sql # ""

_gpt_optimize_sql(base_sql, response) ==
    IF response.kind = "error" THEN base_sql
    ELSE LET content == Strip(response_content(base_sql, response))
             sql_match == sql_block(content)
             optimized == IF sql_match # <<>> THEN Strip(sql_match[1]) ELSE content
         IN  IF ~sqlparse_parsed(optimized) THEN base_sql ELSE optimized

WordChars ==
    {LowerLetters[i] : i \in 1..26} \cup {UpperLetters[i] : i \in 1..26}
    \cup {Digits[i] : i \in 1..10} \cup {"_"}

\* the first token of sqlparse.parse(sql)[0].flatten() that is not whitespace:
\* <<value, is_dml>>, or <<>> when the statement holds only whitespace.  A word is
\* a keyword token unless a "." (after optional whitespace) or a "(" follows it.
first_token(sql) ==
    LET n == Len(sql)
        starts == {i \in 1..n : SubSeq(sql, i, i) \notin WhitespaceChars}
    IN  IF starts = {} THEN <<>>
        ELSE LET b == CHOOSE i \in starts : \A j \in starts : i <= j
                 stops == {i \in b..n : SubSeq(sql, i, i) \notin WordChars}
                 e == IF stops = {} THEN n + 1 ELSE CHOOSE i \in stops : \A j \in stops : i <= j
                 after == {i \in e..n : SubSeq(sql, i, i) \notin WhitespaceChars}
                 nxt == IF after = {} THEN ""
                        ELSE LET a == CHOOSE i \in after : \A j \in after : i <= j
                             IN  SubSeq(sql, a, a)
             IN  IF e = b THEN <<SubSeq(sql, b, b), FALSE>>
                 ELSE <<SubSeq(sql, b, e - 1),
                        Upper(SubSeq(sql, b, e - 1)) = "SELECT"
                        /\ nxt # "."
                        /\ ~(e <= n /\ SubSeq(sql, e, e) = "(")>>

\* the search for a quote before a semicolon alone
injection_pattern_quotes_only(sql) ==
    \/ Contains(sql, "';")
    \/ Contains(sql, "\";")

\* re.search(r"['\"];|--|/\*|\*/", sql)
injection_pattern(sql) ==
    \/ Contains(sql, "';")
    \/ Contains(sql, "\";")
    \/ Contains(sql, "--")
    \/ Contains(sql, "/*")
    \/ Contains(sql, "*/")

Max(a, b) == IF a >= b THEN a ELSE b
Min(a, b) == IF a <= b THEN a ELSE b

\* _check_sql_safety with the keyword search on sql instead of sql.upper()
check_sql_safety_case_sensitive(sql) ==
    LET tokens == first_token(sql)
    IN  IF \E i \in 1..Len(dangerous_keywords) : Contains(sql, dangerous_keywords[i])
        THEN 0
        ELSE IF ~sqlparse_parsed(sql) THEN 3
        ELSE IF tokens = <<>> \/ ~tokens[2] \/ Upper(tokens[1]) # "SELECT" THEN 2
        ELSE Max(0, 9 - (IF injection_pattern(sql) THEN 3 ELSE 0)
                      - (IF Count(sql, "SELECT") > 3 THEN 1 ELSE 0))

\* the safety score in tenths: 0.9 is 9, and 0.9 - 0.1 compares equal to 0.8 in
\* binary floating point, as 8 does here
_check_sql_safety(sql) ==
    LET sql_upper == Upper(sql)
        tokens == first_token(sql)
    IN  IF \E i \in 1..Len(dangerous_keywords) : Contains(sql_upper, dangerous_keywords[i])
        THEN 0
        ELSE IF ~sqlparse_parsed(sql) THEN 3
        ELSE IF tokens = <<>> \/ ~tokens[2] \/ Upper(tokens[1]) # "SELECT" THEN 2
        ELSE Max(0, 9 - (IF injection_pattern(sql) THEN 3 ELSE 0)
                      - (IF Count(sql, "SELECT") > 3 THEN 1 ELSE 0))

function_patterns == <<"GROUP BY", "ORDER BY", "DISTINCT", "UNION">>

_estimate_query_cost(sql, schema) ==
    LET join_count == Count(Upper(sql), "JOIN")
        subquery_count == Count(sql, "SELECT") - 1
    IN  1 + join_count * 2 + subquery_count * 3
        + Cardinality({i \in 1..Len(function_patterns) :
                          Contains(Upper(sql), function_patterns[i])})

\* what a call gives its caller: a returned SQLQuery or a raised exception
Returned(sql, cost, score) ==
    [kind |-> "return", error_type |-> "", sql |-> sql,
     estimated_cost |-> cost, safety_score |-> score]
Raised(error_type) ==
    [kind |-> "raise", error_type |-> error_type, sql |-> "",
     estimated_cost |-> 0, safety_score |-> 0]
NoOutcome ==
    [kind |-> "none", error_type |-> "", sql |-> "",
     estimated_cost |-> 0, safety_score |-> 0]

\* SQLQuery(...): the model validates safety_score with ge=0, le=1
SQLQuery(sql, cost, score) ==
    IF score < 0 \/ score > 10 THEN Raised("ValidationError")
    ELSE Returned(sql, cost, score)

\* the safety threshold 0.8, in tenths
safety_threshold == 8

\* generate_sql after the optimisation step: the body of the try block
generate_sql_try(optimized, score, schema) ==
    IF score < safety_threshold THEN Raised("SQL_SAFETY_ERROR")
    ELSE SQLQuery(optimized, _estimate_query_cost(optimized, schema), score)

\* except Exception as e: every exception of the try block, the QueryError of
\* the safety check included, is raised again as SQL_GENERATION_ERROR
generate_sql_except(r) ==
    IF r.kind = "raise" THEN Raised("SQL_GENERATION_ERROR") ELSE r

generate_sql_result(optimized, score, schema) ==
    generate_sql_except(generate_sql_try(optimized, score, schema))

-----------------------------------------------------------------------------
(* NLPProcessorV2: str and re on the text of a query.  The text of a query  *)
(* is the sequence of its code points, so the Chinese vocabulary of the     *)
(* processor is written as numbers, with the characters in the comments.    *)

\* the characters str.isspace() and the class \s accept
whitespace ==
    {9, 10, 11, 12, 13, 28, 29, 30, 31, 32, 133, 160, 5760} \cup (8192..8202)
    \cup {8232, 8233, 8239, 8287, 12288}

\* the class \d, as far as the queries of the model go: the ASCII and the
\* full-width digits
decimal_digits == (48..57) \cup (65296..65305)

\* re.IGNORECASE on a character: the upper-case ASCII letters and the three
\* characters that fold onto i, k and s
CaseFold(c) ==
    IF c \in 65..90 THEN c + 32
    ELSE IF c \in {304, 305} THEN 105
    ELSE IF c = 8490 THEN 107
    ELSE IF c = 383 THEN 115
    ELSE c

\* the items of a pattern: a character class, .*? and a greedy class+
One(cs) == [kind |-> "one", chars |-> cs]
Lazy == [kind |-> "lazy", chars |-> {}]
Plus(cs) == [kind |-> "plus", chars |-> cs]
\* a literal word under re.IGNORECASE
LitI(w) == [i \in 1..Len(w) |-> [kind |-> "lit", chars |-> {CaseFold(w[i])}]]

\* the item accepts the character c
Accepts(item, c) ==
    IF item.kind = "lit" THEN CaseFold(c) \in item.chars
    ELSE IF item.kind = "lazy" THEN c # 10
    ELSE c \in item.chars

\* the smallest member of a non-empty set of positions
MinOf(S) == CHOOSE x \in S : \A y \in S : x <= y

\* the positions up to which the item items[i] can consume t from p on: p
\* itself and every q with all of t[p..q-1] accepted
Stretch(items, i, t, p) ==
    LET refused == {j \in p..Len(t) : ~Accepts(items[i], t[j])}
    IN  p..(IF refused = {} THEN Len(t) + 1 ELSE MinOf(refused))

\* a match of items[i..] can start at position p of t only if items[i] is .*?
\* or accepts the character there
CanStart(items, i, t, p) ==
    \/ i > Len(items)
    \/ items[i].kind = "lazy"
    \/ (p <= Len(t) /\ Accepts(items[i], t[p]))

\* of a set of pairs <<try, end>>, the pair of the first (the last) try whose
\* end is not 0; <<0, 0>> when every try failed
NoMatch == <<0, 0>>

FirstHit(tries) ==
    IF \A m \in tries : m[2] = 0 THEN NoMatch
    ELSE CHOOSE m \in tries : m[2] # 0 /\ \A o \in tries : o[2] # 0 => m[1] <= o[1]

LastHit(tries) ==
    IF \A m \in tries : m[2] = 0 THEN NoMatch
    ELSE CHOOSE m \in tries : m[2] # 0 /\ \A o \in tries : o[2] # 0 => o[1] <= m[1]

\* the backtracking matcher: the position after the match of items[i..] that
\* starts at position p of t, 0 when there is none.  .*? tries the shortest
\* stretch first, class+ the longest first, down to one character
RECURSIVE MatchEnd(_, _, _, _)
MatchEnd(items, i, t, p) ==
    IF i > Len(items) THEN p
    ELSE IF items[i].kind = "lazy" THEN
        FirstHit({<<q, IF CanStart(items, i + 1, t, q)
                       THEN MatchEnd(items, i + 1, t, q) ELSE 0>> :
                     q \in Stretch(items, i, t, p)})[2]
    ELSE IF items[i].kind = "plus" THEN
        LastHit({<<q, MatchEnd(items, i + 1, t, q)>> :
                    q \in Stretch(items, i, t, p) \ {p}})[2]
    ELSE IF p <= Len(t) /\ Accepts(items[i], t[p]) THEN MatchEnd(items, i + 1, t, p + 1)
    ELSE 0

\* a pattern is the sequence of its alternatives; the first alternative that
\* matches at p decides
PatternEnd(pattern, t, p) ==
    FirstHit({<<a, IF CanStart(pattern[a], 1, t, p)
                   THEN MatchEnd(pattern[a], 1, t, p) ELSE 0>> :
                 a \in 1..Len(pattern)})[2]

\* the characters, folded, with which a match of the pattern can start, when
\* no alternative starts with .*?
FirstChars(pattern) ==
    UNION {pattern[a][1].chars : a \in 1..Len(pattern)}

StartsLazy(pattern) ==
    \E a \in 1..Len(pattern) : pattern[a][1].kind = "lazy"

\* the leftmost match at or after from as <<start, end>>, end the position
\* after the match; NoMatch when there is none
re_match(pattern, t, from) ==
    LET first_chars == FirstChars(pattern)
        anywhere == StartsLazy(pattern)
    IN  FirstHit({<<p, IF anywhere \/ (p <= Len(t) /\ (t[p] \in first_chars
                                                       \/ CaseFold(t[p]) \in first_chars))
                       THEN PatternEnd(pattern, t, p) ELSE 0>> :
                     p \in from..(Len(t) + 1)})

\* re.search(pattern, t, re.IGNORECASE) is not None
re_search(pattern, t) == re_match(pattern, t, 1) # NoMatch

\* match.group(): the text of t a match spans
group(t, m) == SubSeq(t, m[1], m[2] - 1)

\* len(re.findall(pattern, t, re.IGNORECASE)): the matches from left to right,
\* each search starting where the last match ended (no pattern of the
\* processor matches the empty string)
RECURSIVE findall_count(_, _, _)
findall_after(pattern, t, m) ==
    IF m = NoMatch THEN 0
    ELSE 1 + findall_count(pattern, t, IF m[2] > m[1] THEN m[2] ELSE m[1] + 1)

findall_count(pattern, t, from) ==
    findall_after(pattern, t, re_match(pattern, t, from))

\* str.strip() on a text
strip(t) ==
    LET keep == {i \in 1..Len(t) : t[i] \notin whitespace}
    IN  IF keep = {} THEN <<>>
        ELSE SubSeq(t, CHOOSE i \in keep : \A j \in keep : i <= j,
                       CHOOSE i \in keep : \A j \in keep : i >= j)

\* re.sub(r'\s+', ' ', t): every run of whitespace becomes one space
collapse_whitespace(t) ==
    LET first_of_run(i) == t[i] \notin whitespace \/ i = 1 \/ t[i - 1] \notin whitespace
        kept == SelectSeq([i \in 1..Len(t) |-> i], first_of_run)
    IN  [j \in 1..Len(kept) |-> IF t[kept[j]] \in whitespace THEN 32 ELSE t[kept[j]]]

\* re.sub('[...]', '', t) for a class of single characters
remove_chars(t, cs) ==
    LET stays(c) == c \notin cs
    IN  SelectSeq(t, stays)

\* t.replace(old, new)
RECURSIVE replace(_, _, _)
replace(t, old, new) ==
    LET i == IndexFrom(t, old, 1)
    IN  IF i = 0 THEN t
        ELSE SubSeq(t, 1, i - 1) \o new
             \o replace(SubSeq(t, i + Len(old), Len(t)), old, new)

-----------------------------------------------------------------------------
(* NLPProcessorV2: the patterns and the vocabulary *)

\* self.query_patterns: per category the patterns in order; a pattern is the
\* sequence of its alternatives, an alternative a sequence of items
query_patterns ==
    [trend |->
        <<<<LitI(<<36235, 21183>>),   \* 趋势
            LitI(<<21464, 21270>>),   \* 变化
            LitI(<<22686, 38271>>),   \* 增长
            LitI(<<19979, 38477>>),   \* 下降
            LitI(<<36208, 21183>>),   \* 走势
            LitI(<<21457, 23637>>),   \* 发展
            LitI(<<28436, 21464>>),   \* 演变
            LitI(<<27874, 21160>>),   \* 波动
            LitI(<<36215, 20239>>)>>,   \* 起伏
          <<LitI(<<36807, 21435>>) \o <<Lazy>> \o <<One({22825, 24180, 26376})>>,   \* 过去.*?[月天年]
            LitI(<<26368, 36817>>) \o <<Lazy>> \o <<One({22825, 24180, 26376})>>,   \* 最近.*?[月天年]
            <<Lazy>> \o LitI(<<26399, 38388>>),   \* .*?期间
            LitI(<<21382, 21490>>),   \* 历史
            LitI(<<26102, 38388>>),   \* 时间
            LitI(<<21464, 36801>>)>>,   \* 变迁
          <<LitI(<<22686, 38271, 29575>>),   \* 增长率
            LitI(<<21464, 21270, 29575>>),   \* 变化率
            LitI(<<21516, 27604>>),   \* 同比
            LitI(<<29615, 27604>>),   \* 环比
            LitI(<<28072, 24133>>),   \* 涨幅
            LitI(<<36300, 24133>>),   \* 跌幅
            LitI(<<22686, 36895>>),   \* 增速
            LitI(<<38477, 36895>>)>>,   \* 降速
          <<LitI(<<36830, 32493>>),   \* 连续
            LitI(<<25345, 32493>>),   \* 持续
            LitI(<<36880, 24180>>),   \* 逐年
            LitI(<<36880, 26376>>),   \* 逐月
            LitI(<<36880, 26085>>),   \* 逐日
            LitI(<<24180, 24230>>),   \* 年度
            LitI(<<26376, 24230>>),   \* 月度
            LitI(<<26085, 24230>>)>>>>,   \* 日度
     comparison |->
        <<<<LitI(<<23545, 27604>>),   \* 对比
            LitI(<<27604, 36739>>),   \* 比较
            LitI(<<30456, 27604>>),   \* 相比
            LitI(<<118, 115>>),   \* vs
            LitI(<<118, 101, 114, 115, 117, 115>>),   \* versus
            LitI(<<23545, 29031>>),   \* 对照
            LitI(<<80, 75>>),   \* PK
            LitI(<<27604, 25340>>)>>,   \* 比拼
          <<LitI(<<21738, 20010>>) \o <<Lazy>> \o <<One({20248, 21155, 22810, 22823, 22909, 23567, 24369, 24378, 39640})>>,   \* 哪个.*?[好高多大小优劣强弱]
            LitI(<<35841>>) \o <<Lazy>> \o <<One({20248, 21155, 22810, 22823, 22909, 23567, 24369, 24378, 39640})>>>>,   \* 谁.*?[好高多大小优劣强弱]
          <<LitI(<<24046, 24322>>),   \* 差异
            LitI(<<21306, 21035>>),   \* 区别
            LitI(<<24046, 21035>>),   \* 差别
            LitI(<<19981, 21516>>),   \* 不同
            LitI(<<20248, 21155>>),   \* 优劣
            LitI(<<24378, 24369>>),   \* 强弱
            LitI(<<39640, 20302>>)>>,   \* 高低
          <<LitI(<<21508>>) \o <<Lazy>> \o LitI(<<20043, 38388>>),   \* 各.*?之间
            <<Lazy>> \o LitI(<<21644>>) \o <<Lazy>>,   \* .*?和.*?
            <<Lazy>> \o LitI(<<19982>>) \o <<Lazy>>,   \* .*?与.*?
            <<Lazy>> \o LitI(<<36319>>) \o <<Lazy>>>>>>,   \* .*?跟.*?
     ranking |->
        <<<<LitI(<<25490, 21517>>),   \* 排名
            LitI(<<25490, 34892>>),   \* 排行
            LitI(<<84, 79, 80>>),   \* TOP
            LitI(<<21069>>) \o <<Lazy>> \o LitI(<<21517>>),   \* 前.*?名
            LitI(<<26368>>) \o <<Lazy>> \o LitI(<<30340>>),   \* 最.*?的
            LitI(<<31532>>) \o <<Lazy>> \o LitI(<<21517>>),   \* 第.*?名
            LitI(<<20301, 21015>>)>>,   \* 位列
          <<LitI(<<31532>>) \o <<One({49, 50, 51, 52, 53, 54, 55, 56, 57, 19968, 19971, 19977, 20061, 20108, 20116, 20843, 20845, 21313, 22235})>>,   \* 第[一二三四五六七八九十1-9]
            LitI(<<26368>>) \o <<One({20248, 20302, 21155, 22351, 22810, 22823, 22909, 23567, 23569, 24369, 24378, 39640})>>>>,   \* 最[高低大小多少好坏优劣强弱]
          <<LitI(<<20896, 20891>>),   \* 冠军
            LitI(<<20122, 20891>>),   \* 亚军
            LitI(<<23395, 20891>>),   \* 季军
            LitI(<<27036, 39318>>),   \* 榜首
            LitI(<<26411, 20301>>),   \* 末位
            LitI(<<39318, 20301>>),   \* 首位
            LitI(<<20498, 25968>>)>>,   \* 倒数
          <<LitI(<<25490, 24207>>),   \* 排序
            LitI(<<25490, 21015>>),   \* 排列
            LitI(<<21517, 27425>>),   \* 名次
            LitI(<<24231, 27425>>),   \* 座次
            LitI(<<20301, 27425>>)>>>>,   \* 位次
     statistics |->
        <<<<LitI(<<24635>>) \o <<Lazy>>,   \* 总.*?
            LitI(<<24179, 22343>>),   \* 平均
            LitI(<<24179, 22343, 20540>>),   \* 平均值
            LitI(<<24635, 21644>>),   \* 总和
            LitI(<<24635, 35745>>),   \* 总计
            LitI(<<21512, 35745>>),   \* 合计
            LitI(<<27719, 24635>>)>>,   \* 汇总
          <<LitI(<<32479, 35745>>),   \* 统计
            LitI(<<27719, 24635>>),   \* 汇总
            LitI(<<27010, 20917>>),   \* 概况
            LitI(<<24773, 20917>>),   \* 情况
            LitI(<<25968, 25454>>),   \* 数据
            LitI(<<25351, 26631>>),   \* 指标
            LitI(<<27010, 35272>>)>>,   \* 概览
          <<LitI(<<25968, 37327>>),   \* 数量
            LitI(<<20010, 25968>>),   \* 个数
            LitI(<<24635, 25968>>),   \* 总数
            LitI(<<35745, 25968>>),   \* 计数
            LitI(<<27714, 21644>>),   \* 求和
            LitI(<<32047, 35745>>)>>,   \* 累计
          <<LitI(<<26368, 22823, 20540>>),   \* 最大值
            LitI(<<26368, 23567, 20540>>),   \* 最小值
            LitI(<<26368, 39640>>),   \* 最高
            LitI(<<26368, 20302>>),   \* 最低
            LitI(<<26497, 20540>>),   \* 极值
            LitI(<<22343, 20540, 22810, 23569>>),   \* 均值多少
            LitI(<<20960, 20010>>),   \* 几个
            LitI(<<25968, 37327>>),   \* 数量
            LitI(<<24635, 25968>>)>>>>,   \* 总数
     proportion |->
        <<<<LitI(<<21344, 27604>>),   \* 占比
            LitI(<<27604, 20363>>),   \* 比例
            LitI(<<30334, 20998, 27604>>),   \* 百分比
            LitI(<<20221, 39069>>),   \* 份额
            LitI(<<21344, 25454>>)>>,   \* 占据
          <<LitI(<<20998, 24067>>),   \* 分布
            LitI(<<26500, 25104>>),   \* 构成
            LitI(<<32452, 25104>>),   \* 组成
            LitI(<<27604, 37325>>),   \* 比重
            LitI(<<26435, 37325>>)>>,   \* 权重
          <<LitI(<<37>>),   \* %
            LitI(<<112, 101, 114, 99, 101, 110, 116>>),   \* percent
            LitI(<<27604, 29575>>)>>>>]   \* 比率

\* the iteration order of self.query_patterns.items()
pattern_order == <<"trend", "comparison", "ranking", "statistics", "proportion">>

\* _extract_entities: business_entities, per category its keywords in order
business_entities ==
    <<<<<<37096, 38376>>, <<31185, 23460>>, <<20998, 20844, 21496>>, <<20107, 19994, 37096>>, <<20013, 24515>>>>,   \* 部门: 部门 科室 分公司 事业部 中心
      <<<<20135, 21697>>, <<21830, 21697>>, <<26381, 21153>>, <<39033, 30446>>, <<26041, 26696>>>>,   \* 产品: 产品 商品 服务 项目 方案
      <<<<23458, 25143>>, <<29992, 25143>>, <<28040, 36153, 32773>>, <<20080, 23478>>, <<39038, 23458>>>>,   \* 客户: 客户 用户 消费者 买家 顾客
      <<<<21592, 24037>>, <<20154, 21592>>, <<32844, 21592>>, <<24037, 20316, 20154, 21592>>, <<22242, 38431>>>>,   \* 员工: 员工 人员 职员 工作人员 团队
      <<<<22320, 21306>>, <<21306, 22495>>, <<22478, 24066>>, <<30465, 20221>>, <<24066, 22330>>>>>>   \* 地区: 地区 区域 城市 省份 市场

\* _extract_entities: business_metrics
business_metrics ==
    <<<<38144, 21806, 39069>>,   \* 销售额
      <<33829, 19994, 39069>>,   \* 营业额
      <<25910, 20837>>,   \* 收入
      <<21033, 28070>>,   \* 利润
      <<25104, 26412>>,   \* 成本
      <<36153, 29992>>,   \* 费用
      <<19994, 32489>>,   \* 业绩
      <<32489, 25928>>,   \* 绩效
      <<22686, 38271, 29575>>,   \* 增长率
      <<21344, 27604>>,   \* 占比
      <<20221, 39069>>,   \* 份额
      <<25968, 37327>>,   \* 数量
      <<21333, 20215>>,   \* 单价
      <<23458, 21333, 20215>>,   \* 客单价
      <<36716, 21270, 29575>>,   \* 转化率
      <<30041, 23384, 29575>>,   \* 留存率
      <<27963, 36291, 24230>>>>   \* 活跃度

\* _extract_dimensions_metrics: dimension_words
dimension_words ==
    <<<<37096, 38376>>,   \* 部门
      <<22320, 21306>>,   \* 地区
      <<20135, 21697>>,   \* 产品
      <<28192, 36947>>,   \* 渠道
      <<23458, 25143>>,   \* 客户
      <<26102, 38388>>>>   \* 时间

\* _extract_dimensions_metrics: metric_words
metric_words ==
    <<<<38144, 21806, 39069>>,   \* 销售额
      <<25910, 20837>>,   \* 收入
      <<21033, 28070>>,   \* 利润
      <<25968, 37327>>,   \* 数量
      <<23458, 25143, 25968>>,   \* 客户数
      <<29992, 25143, 25968>>>>   \* 用户数

\* _calculate_enhanced_confidence: business_keywords
business_keywords ==
    <<<<38144, 21806>>,   \* 销售
      <<19994, 32489>>,   \* 业绩
      <<25968, 25454>>,   \* 数据
      <<20998, 26512>>,   \* 分析
      <<32479, 35745>>,   \* 统计
      <<23545, 27604>>,   \* 对比
      <<36235, 21183>>,   \* 趋势
      <<33829, 25910>>,   \* 营收
      <<21033, 28070>>,   \* 利润
      <<25104, 26412>>,   \* 成本
      <<23458, 25143>>,   \* 客户
      <<20135, 21697>>,   \* 产品
      <<37096, 38376>>,   \* 部门
      <<22320, 21306>>>>   \* 地区

\* _extract_time_range: time_patterns
time_patterns ==
    <<<<LitI(<<112, 97, 115, 116, 32>>) \o <<Plus(decimal_digits)>> \o LitI(<<32, 109, 111, 110, 116, 104>>)>>,   \* past \d+ month
      <<LitI(<<108, 97, 115, 116, 32>>) \o <<Plus(decimal_digits)>> \o LitI(<<32, 109, 111, 110, 116, 104>>)>>,   \* last \d+ month
      <<LitI(<<114, 101, 99, 101, 110, 116, 32>>) \o <<Plus(decimal_digits)>> \o LitI(<<32, 109, 111, 110, 116, 104>>)>>,   \* recent \d+ month
      <<LitI(<<116, 111, 100, 97, 121>>)>>,   \* today
      <<LitI(<<121, 101, 115, 116, 101, 114, 100, 97, 121>>)>>,   \* yesterday
      <<LitI(<<116, 104, 105, 115, 32, 119, 101, 101, 107>>)>>,   \* this week
      <<LitI(<<108, 97, 115, 116, 32, 119, 101, 101, 107>>)>>,   \* last week
      <<LitI(<<116, 104, 105, 115, 32, 109, 111, 110, 116, 104>>)>>,   \* this month
      <<LitI(<<108, 97, 115, 116, 32, 109, 111, 110, 116, 104>>)>>,   \* last month
      <<LitI(<<116, 104, 105, 115, 32, 121, 101, 97, 114>>)>>,   \* this year
      <<LitI(<<108, 97, 115, 116, 32, 121, 101, 97, 114>>)>>>>   \* last year

\* _preprocess_query: time_mappings, in the order of the dict
time_mappings ==
    <<<<<<20170, 22825>>, <<116, 111, 100, 97, 121>>>>,   \* 今天 -> today
      <<<<26152, 22825>>, <<121, 101, 115, 116, 101, 114, 100, 97, 121>>>>,   \* 昨天 -> yesterday
      <<<<26126, 22825>>, <<116, 111, 109, 111, 114, 114, 111, 119>>>>,   \* 明天 -> tomorrow
      <<<<26412, 21608>>, <<116, 104, 105, 115, 32, 119, 101, 101, 107>>>>,   \* 本周 -> this week
      <<<<19978, 21608>>, <<108, 97, 115, 116, 32, 119, 101, 101, 107>>>>,   \* 上周 -> last week
      <<<<19979, 21608>>, <<110, 101, 120, 116, 32, 119, 101, 101, 107>>>>,   \* 下周 -> next week
      <<<<26412, 26376>>, <<116, 104, 105, 115, 32, 109, 111, 110, 116, 104>>>>,   \* 本月 -> this month
      <<<<19978, 26376>>, <<108, 97, 115, 116, 32, 109, 111, 110, 116, 104>>>>,   \* 上月 -> last month
      <<<<19979, 26376>>, <<110, 101, 120, 116, 32, 109, 111, 110, 116, 104>>>>,   \* 下月 -> next month
      <<<<20170, 24180>>, <<116, 104, 105, 115, 32, 121, 101, 97, 114>>>>,   \* 今年 -> this year
      <<<<21435, 24180>>, <<108, 97, 115, 116, 32, 121, 101, 97, 114>>>>,   \* 去年 -> last year
      <<<<26126, 24180>>, <<110, 101, 120, 116, 32, 121, 101, 97, 114>>>>,   \* 明年 -> next year
      <<<<26368, 36817>>, <<114, 101, 99, 101, 110, 116>>>>,   \* 最近 -> recent
      <<<<36807, 21435>>, <<112, 97, 115, 116>>>>>>   \* 过去 -> past

\* _preprocess_query: the characters of the punctuation class
punctuation_chars == {34, 12290, 12304, 12305, 65281, 65288, 65289, 65292, 65306, 65307, 65311}   \* " 。 【 】 ！ （ ） ， ： ； ？

-----------------------------------------------------------------------------
(* NLPProcessorV2: the functions of the local parse *)

\* _preprocess_query: strip, runs of whitespace to one space, the punctuation
\* removed, then the time words replaced in the order of time_mappings
RECURSIVE apply_time_mappings(_, _)
apply_time_mappings(query, k) ==
    IF k > Len(time_mappings) THEN query
    ELSE apply_time_mappings(replace(query, time_mappings[k][1], time_mappings[k][2]), k + 1)

_preprocess_query(query) ==
    apply_time_mappings(
        remove_chars(collapse_whitespace(strip(query)), punctuation_chars), 1)

\* the score of a category in _pattern_classify: the findall matches of its
\* patterns, added up
RECURSIVE type_score(_, _, _)
type_score(patterns, query, k) ==
    IF k > Len(patterns) THEN 0
    ELSE findall_count(patterns[k], query, 1) + type_score(patterns, query, k + 1)

\* the scores of _pattern_classify as pairs <<place in pattern_order, score>>
type_scores(query) ==
    {<<k, type_score(query_patterns[pattern_order[k]], query, 1)>> :
        k \in 1..Len(pattern_order)}

\* max() keeping the last category with the highest score
max_type_score_last(scores) ==
    CHOOSE s \in scores : \A o \in scores : o[2] < s[2] \/ (o[2] = s[2] /\ o[1] <= s[1])

\* max(type_scores, key=type_scores.get): the first category with the highest
\* score
max_type_score(scores) ==
    CHOOSE s \in scores : \A o \in scores : o[2] < s[2] \/ (o[2] = s[2] /\ s[1] <= o[1])

\* the category of the best score, with no default
best_type_undefaulted(best) == pattern_order[best[1]]

\* the category of the best score; statistics when no pattern matches
best_type(best) ==
    IF best[2] > 0 THEN pattern_order[best[1]] ELSE "statistics"

_pattern_classify(query) == best_type(max_type_score(type_scores(query)))

\* the first keyword of a category that occurs in the query, if any
first_keyword(keywords, query) ==
    LET hits == {k \in 1..Len(keywords) : Contains(query, keywords[k])}
    IN  IF hits = {} THEN {}
        ELSE {keywords[CHOOSE k \in hits : \A j \in hits : k <= j]}

\* _extract_entities: one keyword per category and every metric word that
\* occurs; list(set(...)) leaves a collection without order or duplicates
_extract_entities(query) ==
    UNION {first_keyword(business_entities[c], query) : c \in 1..Len(business_entities)}
    \cup {business_metrics[k] : k \in {j \in 1..Len(business_metrics) :
                                          Contains(query, business_metrics[j])}}

\* _extract_time_range: the text matched by the first pattern that matches
time_matches(query) ==
    {<<k, re_match(time_patterns[k], query, 1)>> : k \in 1..Len(time_patterns)}

first_time_match(query, matches) ==
    IF \A m \in matches : m[2] = NoMatch THEN None
    ELSE Some(group(query, (CHOOSE m \in matches :
                               /\ m[2] # NoMatch
                               /\ \A o \in matches : o[2] # NoMatch => m[1] <= o[1])[2]))

_extract_time_range(query) == first_time_match(query, time_matches(query))

\* the words of a list that occur in the query, in the order of the list
words_in(words, query) ==
    LET occurs(w) == Contains(query, w)
    IN  SelectSeq(words, occurs)

\* _extract_dimensions_metrics
_extract_dimensions_metrics(query) ==
    [dimensions |-> words_in(dimension_words, query),
     metrics |-> words_in(metric_words, query)]

\* _extract_filters: the words are 大于, 超过; 小于, 低于; 等于
_extract_filters(query) ==
    IF Contains(query, <<22823, 20110>>) \/ Contains(query, <<36229, 36807>>)
        THEN <<StrFilter("condition", "greater_than")>>
    ELSE IF Contains(query, <<23567, 20110>>) \/ Contains(query, <<20302, 20110>>)
        THEN <<StrFilter("condition", "less_than")>>
    ELSE IF Contains(query, <<31561, 20110>>)
        THEN <<StrFilter("condition", "equal")>>
    ELSE <<>>

\* round(x, 2) of a confidence in thousandths: the nearest hundredth; for a
\* value halfway between two hundredths the rounding error of the float sum
\* decides, and either neighbour can come out
round_2(x) ==
    LET below == (x \div 10) * 10
    IN  IF x - below < 5 THEN {below}
        ELSE IF x - below > 5 THEN {below + 10}
        ELSE {below, below + 10}

\* the number of patterns of the category that re.search finds in the query
type_match_count(query_type, query) ==
    Cardinality({k \in 1..Len(query_patterns[query_type]) :
                    re_search(query_patterns[query_type][k], query)})

\* the score of the category match times its weight, in thousandths: the
\* share of the category's patterns found, of pattern_count
type_match_part(match_count, pattern_count) ==
    (Min(match_count, pattern_count) * 300) \div pattern_count

\* the sum of score * weight over the five factors, in thousandths
weighted_confidence(query, query_type, entities, time_range, dimensions, metrics) ==
    type_match_part(type_match_count(query_type, query), Len(query_patterns[query_type]))
    + (IF Cardinality(entities) >= 3 THEN 200
       ELSE IF Cardinality(entities) >= 2 THEN 160
       ELSE IF Cardinality(entities) >= 1 THEN 120
       ELSE 60)
    + (IF time_range # None THEN 180 ELSE 80)
    + (IF Len(dimensions) > 0 THEN 150 ELSE 75)
    + (IF Len(metrics) > 0 THEN 150 ELSE 75)

\* the number of business keywords that occur in the query
keyword_count(query) ==
    Cardinality({k \in 1..Len(business_keywords) : Contains(query, business_keywords[k])})

\* the length bonus and the two keyword bonuses, in thousandths
bonus_points(query) ==
    (IF 10 <= Len(strip(query)) /\ Len(strip(query)) <= 100 THEN 50 ELSE 0)
    + (IF keyword_count(query) >= 2 THEN 50 ELSE 0)
    + (IF keyword_count(query) >= 4 THEN 50 ELSE 0)

\* _calculate_enhanced_confidence: the values round(final_confidence, 2) can
\* take, in thousandths
_calculate_enhanced_confidence(query, query_type, entities, time_range, dimensions, metrics) ==
    round_2(Min(weighted_confidence(query, query_type, entities, time_range, dimensions, metrics)
                + bonus_points(query), 1000))

\* QueryIntent as a record; entities is the unordered collection
Intent(query_type, entities, time_range, dimensions, metrics, filters, confidence) ==
    [query_type |-> query_type, entities |-> entities, time_range |-> time_range,
     dimensions |-> dimensions, metrics |-> metrics, filters |-> filters,
     confidence |-> confidence]

\* the intents of _local_parse_intent, from what it extracted
local_intents(query, base_type, entities, time_range, dm, filters) ==
    {Intent(base_type, entities, time_range, dm.dimensions, dm.metrics, filters, c) :
        c \in _calculate_enhanced_confidence(query, base_type, entities, time_range,
                                             dm.dimensions, dm.metrics)}

\* _local_parse_intent: the intents it can return for the cleaned query
_local_parse_intent(query, base_type) ==
    local_intents(query, base_type, _extract_entities(query), _extract_time_range(query),
                  _extract_dimensions_metrics(query), _extract_filters(query))

-----------------------------------------------------------------------------
(* NLPProcessorV2: the external refiner and the call counter *)

\* _should_use_openai: daily_limit
daily_limit == 1000

\* the values of config.openai_api_key: unset, the default of config.py and a
\* configured key
ApiKeys == {"", "test_key_placeholder", "sk-configured"}

\* the gate with the ceiling compared by > instead of >=
should_use_openai_ceiling_exclusive ==
    /\ ~(api_call_count > daily_limit)
    /\ ~(openai_api_key = "" \/ openai_api_key = "test_key_placeholder")

\* _should_use_openai
_should_use_openai ==
    /\ ~(api_call_count >= daily_limit)
    /\ ~(openai_api_key = "" \/ openai_api_key = "test_key_placeholder")

\* what the completion service can give to one request: the await raises
\* ("timeout", "error"), or the message content has no {...} ("text"), has one
\* that json.loads rejects ("malformed"), or has a JSON object ("json") whose
\* members are data, a function from the member names present to their values
NoData == <<>>
NoResponse == [kind |-> "none", data |-> NoData]

_validate_intent_data(data) ==
    \A field \in {"query_type", "entities", "confidence"} : field \in DOMAIN data

\* the data member, or the default of the QueryIntent field
field_or(data, field, default) ==
    IF field \in DOMAIN data THEN data[field] ELSE default

\* the validation with the bounds of confidence left out
QueryIntent_valid_unbounded(data) ==
    data.query_type \in QueryTypes

\* pydantic's validation of QueryIntent(**data): query_type is a value of the
\* enum and confidence satisfies ge=0, le=1 (thousandths here)
QueryIntent_valid(data) ==
    /\ data.query_type \in QueryTypes
    /\ data.confidence >= 0
    /\ data.confidence <= 1000

\* QueryIntent(**data) for data that passes the validation
QueryIntent(data) ==
    Intent(data.query_type, data.entities, field_or(data, "time_range", None),
           field_or(data, "dimensions", <<>>), field_or(data, "metrics", <<>>),
           field_or(data, "filters", <<>>), data.confidence)

EmptyIntent == Intent("statistics", {}, None, <<>>, <<>>, <<>>, 0)

\* the result of _openai_parse_intent: the intent, or the exception it raises
Refined(it) == [ok |-> TRUE, error |-> "", intent |-> it]
RefineFailed(error) == [ok |-> FALSE, error |-> error, intent |-> EmptyIntent]

\* _openai_parse_intent, from the answer of the completion service on
_openai_parse_intent(response) ==
    IF response.kind = "timeout" THEN RefineFailed("TimeoutError")
    ELSE IF response.kind = "error" THEN RefineFailed("APIError")
    ELSE IF response.kind = "text" THEN RefineFailed("ValueError")
    ELSE IF response.kind = "malformed" THEN RefineFailed("JSONDecodeError")
    ELSE IF ~_validate_intent_data(response.data) THEN RefineFailed("ValueError")
    ELSE IF ~QueryIntent_valid(response.data) THEN RefineFailed("ValidationError")
    ELSE Refined(QueryIntent(response.data))

\* the history entry takes the count read before the increment
_track_api_usage_stale_entry(count, tracking, start_time, now) ==
    [api_call_count |-> count + 1,
     api_cost_tracking |->
         Append(tracking, [timestamp |-> start_time, duration |-> now - start_time,
                           call_count |-> count])]

\* _track_api_usage: the counter and the history after one more recorded call
_track_api_usage(count, tracking, start_time, now) ==
    [api_call_count |-> count + 1,
     api_cost_tracking |->
         Append(tracking, [timestamp |-> start_time, duration |-> now - start_time,
                           call_count |-> count + 1])]

\* get_api_statistics: its own copy of the ceiling
statistics_daily_limit == 1000

get_api_statistics ==
    [total_calls |-> api_call_count,
     daily_limit |-> statistics_daily_limit,
     remaining_calls |-> Max(0, statistics_daily_limit - api_call_count),
     recent_calls |-> SubSeq(api_cost_tracking,
                             Max(1, Len(api_cost_tracking) - 9), Len(api_cost_tracking))]

\* what a call of parse_query_intent gives its caller
ParseReturned(it) == [kind |-> "return", error_type |-> "", intent |-> it]
ParseRaised(error_type) == [kind |-> "raise", error_type |-> error_type, intent |-> EmptyIntent]
NoParseOutcome == [kind |-> "none", error_type |-> "", intent |-> EmptyIntent]

-----------------------------------------------------------------------------
(* ChartRecommender.  A value of a row is [type, text]: type is the Python    *)
(* type ("str", "int", "float", "bool", "NoneType", "list") and text the      *)
(* characters of a str.  A row is [is_dict, items]: a dict with its items in  *)
(* order as <<key, value>>, or some other object.                             *)

\* the values of ChartType
ChartTypes == {"line", "bar", "pie", "number", "table"}

\* the rule table with ChartType.NUMBER as the default of get
chart_rules_get_number_default(query_type) ==
    CASE query_type = "trend"      -> "line"
      [] query_type = "comparison" -> "bar"
      [] query_type = "ranking"    -> "bar"
      [] query_type = "proportion" -> "pie"
      [] OTHER                     -> "number"

\* self.chart_rules.get(query_type, ChartType.TABLE)
chart_rules_get(query_type) ==
    CASE query_type = "trend"      -> "line"
      [] query_type = "comparison" -> "bar"
      [] query_type = "ranking"    -> "bar"
      [] query_type = "statistics" -> "number"
      [] query_type = "proportion" -> "pie"
      [] OTHER                     -> "table"

\* digits, single underscores allowed between them
IsDigitPart(s) ==
    /\ Len(s) > 0
    /\ \A i \in 1..Len(s) : SubSeq(s, i, i) \in {Digits[d] : d \in 1..10} \cup {"_"}
    /\ SubSeq(s, 1, 1) # "_"
    /\ SubSeq(s, Len(s), Len(s)) # "_"
    /\ ~Contains(s, "__")

\* the part of a float literal before the exponent
IsMantissa(s) ==
    IF IndexFrom(s, ".", 1) = 0 THEN IsDigitPart(s)
    ELSE /\ Len(s) > 1
         /\ \/ IndexFrom(s, ".", 1) = 1
            \/ IsDigitPart(SubSeq(s, 1, IndexFrom(s, ".", 1) - 1))
         /\ \/ IndexFrom(s, ".", 1) = Len(s)
            \/ IsDigitPart(SubSeq(s, IndexFrom(s, ".", 1) + 1, Len(s)))

\* s without a leading sign
Unsigned(s) ==
    IF Len(s) > 0 /\ SubSeq(s, 1, 1) \in {"+", "-"} THEN SubSeq(s, 2, Len(s)) ELSE s

\* an unsigned float literal: inf, infinity, nan, or a decimal with an optional
\* exponent
IsFloatBody(s, e) ==
    \/ Lower(s) \in {"inf", "infinity", "nan"}
    \/ e = 0 /\ IsMantissa(s)
    \/ /\ e > 0
       /\ IsMantissa(SubSeq(s, 1, e - 1))
       /\ IsDigitPart(Unsigned(SubSeq(s, e + 1, Len(s))))

\* float(text) succeeds for the str text
float_parses(text) ==
    IsFloatBody(Unsigned(Strip(text)), IndexFrom(Lower(Unsigned(Strip(text))), "e", 1))

\* _is_numeric_string: float(value) raises neither ValueError nor TypeError
_is_numeric_string(value) ==
    CASE value.type = "str" -> float_parses(value.text)
      [] value.type \in {"int", "float", "bool"} -> TRUE
      [] OTHER -> FALSE

time_keywords == <<"date", "time", "created", "updated", "timestamp">>

\* _has_time_series_data on a first row that is a dict with str keys
_has_time_series_data(sample) ==
    \E i \in 1..Len(sample.items) :
        \E k \in 1..Len(time_keywords) : Contains(Lower(sample.items[i][1]), time_keywords[k])

\* _has_categorical_data
_has_categorical_data(sample) ==
    \E i \in 1..Len(sample.items) :
        sample.items[i][2].type = "str" /\ ~_is_numeric_string(sample.items[i][2])

\* _has_numeric_data: isinstance(value, (int, float)) holds for a bool as well
_has_numeric_data(sample) ==
    \E i \in 1..Len(sample.items) :
        \/ sample.items[i][2].type \in {"int", "float", "bool"}
        \/ _is_numeric_string(sample.items[i][2])

\* the row-count rule with the boundaries taken exclusively
rows_to_chart_exclusive(row_count) ==
    IF row_count < 5 THEN "pie" ELSE IF row_count < 20 THEN "bar" ELSE "table"

\* the chart for categorical and numeric data, by the number of rows
rows_to_chart(row_count) ==
    IF row_count <= 5 THEN "pie" ELSE IF row_count <= 20 THEN "bar" ELSE "table"

\* the decisions of _optimize_chart_by_data with the categorical rule tried
\* before the time-series rule
chart_by_features_categories_first(base_chart, column_count, row_count, has_time_series, has_categories, has_numeric_values) ==
    IF has_categories /\ has_numeric_values THEN rows_to_chart(row_count)
    ELSE IF has_time_series /\ has_numeric_values THEN "line"
    ELSE IF column_count = 1 THEN "number"
    ELSE IF row_count > 50 THEN "table"
    ELSE base_chart

\* the decisions of _optimize_chart_by_data, from the features of the data
chart_by_features(base_chart, column_count, row_count, has_time_series, has_categories, has_numeric_values) ==
    IF has_time_series /\ has_numeric_values THEN "line"
    ELSE IF has_categories /\ has_numeric_values THEN rows_to_chart(row_count)
    ELSE IF column_count = 1 THEN "number"
    ELSE IF row_count > 50 THEN "table"
    ELSE base_chart

\* _optimize_chart_by_data for a preview that is not empty: the chart, or
\* "AttributeError" when the first row has no keys()
_optimize_chart_by_data(base_chart, rows) ==
    IF ~rows[1].is_dict THEN "AttributeError"
    ELSE chart_by_features(base_chart, Len(rows[1].items), Len(rows),
                           _has_time_series_data(rows[1]), _has_categorical_data(rows[1]),
                           _has_numeric_data(rows[1]))

\* the try block of recommend_chart
recommend_chart_try(query_type, data_preview) ==
    IF data_preview.given /\ Len(data_preview.rows) > 0
    THEN _optimize_chart_by_data(chart_rules_get(query_type), data_preview.rows)
    ELSE chart_rules_get(query_type)

\* except Exception with the exception raised again
recommend_chart_except_reraised(result) == result

\* except Exception: return ChartType.TABLE
recommend_chart_except(result) ==
    IF result \in ChartTypes THEN result ELSE "table"

recommend_chart(query_type, data_preview) ==
    recommend_chart_except(recommend_chart_try(query_type, data_preview))

-----------------------------------------------------------------------------
(* The inputs of parse_query_intent in the model *)

\* the natural-language queries of the model
query_trend ==   \* 显示过去3个月的销售趋势
    <<26174, 31034, 36807, 21435, 51, 20010, 26376, 30340, 38144, 21806, 36235, 21183>>
query_spaced ==   \* __本月，销售额__趋势？_
    <<32, 32, 26412, 26376, 65292, 38144, 21806, 39069, 32, 32, 36235, 21183, 65311, 32>>
query_rich ==   \* 本月各部门产品客户销售额趋势历史同比连续
    <<26412, 26376, 21508, 37096, 38376, 20135, 21697, 23458, 25143, 38144, 21806, 39069, 36235, 21183, 21382, 21490, 21516, 27604, 36830, 32493>>

\* today科室渠道收入费用员工 followed by 90 letters a: more than 100 characters,
\* no category pattern and fewer than two business keywords
query_rich_unmatched ==
    <<116, 111, 100, 97, 121, 31185, 23460, 28192, 36947, 25910, 20837, 36153, 29992, 21592, 24037>>
    \o [i \in 1..90 |-> 97]

NlpQueries ==
    {<<>>, query_trend, query_spaced, query_rich, query_rich_unmatched}

\* what the completion service answers
word_department == <<37096, 38376>>   \* 部门
word_sales == <<38144, 21806, 39069>>   \* 销售额
text_last_month == <<108, 97, 115, 116, 32, 109, 111, 110, 116, 104>>   \* last month

IntentData ==
    {[query_type |-> "ranking", entities |-> {word_department}, confidence |-> 950],
     [query_type |-> "trend", entities |-> {word_department, word_sales},
      time_range |-> Some(text_last_month), dimensions |-> <<word_department>>,
      metrics |-> <<word_sales>>, filters |-> <<>>, confidence |-> 1000],
     [query_type |-> "trend", entities |-> {word_department}],
     [query_type |-> "trend", confidence |-> 900],
     [entities |-> {word_department}, confidence |-> 900],
     [query_type |-> "forecast", entities |-> {word_department}, confidence |-> 900],
     [query_type |-> "comparison", entities |-> {word_department}, confidence |-> 1500],
     [query_type |-> "statistics", entities |-> {}, confidence |-> -200]}

RefinerResponses ==
    {[kind |-> k, data |-> NoData] : k \in {"timeout", "error", "text", "malformed"}}
    \cup {[kind |-> "json", data |-> d] : d \in IntentData}

\* the concurrent requests the model keeps in flight
NumReq == 1
\* the refiner calls the model issues in one run
MaxRefinerCalls == 2
\* the days the clock of the model advances
MaxDays == 1
\* how far below the ceiling the counter of a long-running processor starts
StartBelowLimit == 1

Requests == 1..NumReq

\* parse_query_intent up to the gate: cleaned_query, base_type and the intents
\* _local_parse_intent can return for them
parse_classified(cleaned_query, base_type) ==
    [cleaned_query |-> cleaned_query, base_type |-> base_type,
     intents |-> _local_parse_intent(cleaned_query, base_type)]

parse_cleaned(cleaned_query) ==
    parse_classified(cleaned_query, _pattern_classify(cleaned_query))

parse_up_to_gate(natural_query) == parse_cleaned(_preprocess_query(natural_query))

\* the same, worked out once for each query of NlpQueries
parsed_queries ==
    {[natural_query |-> q, parsed |-> parse_up_to_gate(q)] : q \in NlpQueries}

parse_locally(natural_query) ==
    (CHOOSE row \in parsed_queries : row.natural_query = natural_query).parsed

\* no call of parse_query_intent is in progress for the request
IdleFrame ==
    [pc |-> "idle", natural_query |-> <<>>, use_openai |-> FALSE,
     cleaned_query |-> <<>>, base_type |-> "statistics", start_time |-> 0,
     response |-> NoResponse, outcome |-> NoParseOutcome]

\* NLPProcessorV2.__init__ under the default configuration
NlpIdle ==
    /\ openai_api_key = "test_key_placeholder"
    /\ api_call_count = 0
    /\ api_cost_tracking = <<>>
    /\ clock = 0
    /\ refiner_calls = [issued |-> 0, failed |-> 0]
    /\ refiner_budget = 0
    /\ parse = [r \in Requests |-> IdleFrame]

\* no call of _pattern_classify has been made
ClassifyIdle ==
    /\ classify_query = <<>>
    /\ classify_type = "none"

\* data_preview=None, the default of recommend_chart
NoPreview == [given |-> FALSE, rows |-> <<>>]

\* no call of recommend_chart has been made
ChartIdle ==
    /\ chart_query_type = "statistics"
    /\ chart_preview = NoPreview
    /\ chart_result = "none"

\* the components called on their own are at rest
FnIdle == ClassifyIdle /\ ChartIdle

\* what process_query gives its caller: a QueryResult or a raised QueryError
NoResult ==
    [kind |-> "none", error_type |-> "", intent |-> EmptyIntent,
     sql_query |-> NoOutcome, recommended_chart |-> "none", data |-> <<>>]
QueryResult(it, sql_query, recommended_chart, data) ==
    [kind |-> "return", error_type |-> "", intent |-> it,
     sql_query |-> sql_query, recommended_chart |-> recommended_chart, data |-> data]
QueryError(error_type) ==
    [kind |-> "raise", error_type |-> error_type, intent |-> EmptyIntent,
     sql_query |-> NoOutcome, recommended_chart |-> "none", data |-> <<>>]

\* no call of process_query is in progress
IdleProcess ==
    [pc |-> "idle", intent |-> EmptyIntent, external_calls |-> 0, outcome |-> NoResult]

\* no function is called on its own
IdleCall == [fn |-> "none", args |-> <<>>, done |-> FALSE, result |-> <<>>]

EngineIdle == process = IdleProcess /\ call = IdleCall

-----------------------------------------------------------------------------
(* The calls of generate_sql the model makes *)

SqlDimensions == {<<>>, <<"Region", "dept">>}
SqlMetrics == {<<>>, <<"amount">>}
SqlTimeRanges == {None, Some("This Month"), Some("last year")}
SqlFilters ==
    {<<>>,
     <<StrFilter("condition", "greater_than"), IntFilter("amount", 100)>>}

SqlIntents ==
    [query_type : QueryTypes, entities : {<<>>}, time_range : SqlTimeRanges,
     dimensions : SqlDimensions, metrics : SqlMetrics, filters : SqlFilters,
     confidence : {850}]

\* AIEngine.mock_schema
mock_schema ==
    [main_table |-> "business_data",
     columns |-> <<"date", "department", "product_name", "sales_amount",
                   "customer_count", "region", "created_at", "updated_at">>]

Schemas ==
    {mock_schema,
     [main_table |-> "sales_data", columns |-> <<"date", "product", "amount", "region">>],
     [main_table |-> "orders", columns |-> <<"region", "amount", "order_time">>],
     [main_table |-> "sales", columns |-> <<"region", "product", "amount">>],
     [columns |-> <<>>]}

OptimizeResponses ==
    {[kind |-> "error", fenced |-> FALSE, content |-> ""],
     [kind |-> "echo", fenced |-> FALSE, content |-> ""],
     [kind |-> "echo", fenced |-> TRUE, content |-> ""]}
    \cup
    [kind : {"text"}, fenced : {FALSE},
     content : {"",
                "Optimized:\n" \o Fence \o "sql\nSELECT region, SUM(amount) FROM sales_data GROUP BY region\n" \o Fence,
                "select region from sales_data order by region",
                "SELECT a FROM (SELECT a FROM (SELECT a FROM (SELECT a FROM t)))",
                "SELECT a FROM (SELECT a FROM (SELECT a FROM (SELECT a /* x */ FROM t)))",
                "SELECT a FROM t JOIN u ON t.id = u.id WHERE t.name = 'x';--",
                "SELECT 1; SELECT 2",
                "SELECT * FROM t; DROP TABLE t",
                "Delete from sales_data",
                "SELECT updated_at FROM orders",
                "WITH c AS (SELECT 1) SELECT * FROM c",
                "I cannot optimise this query."}]

\* no call of generate_sql is in progress
NoIntent ==
    [query_type |-> "statistics", entities |-> <<>>, time_range |-> None,
     dimensions |-> <<>>, metrics |-> <<>>, filters |-> <<>>, confidence |-> 0]

SqlIdle ==
    /\ gen_pc = "idle"
    /\ intent = NoIntent
    /\ schema_info = mock_schema
    /\ template_sql = ""
    /\ optimized_sql = ""
    /\ safety_score = 0
    /\ sql_outcome = NoOutcome

SqlInit == SqlIdle /\ NlpIdle /\ FnIdle /\ EngineIdle

\* generate_sql up to the await of _gpt_optimize_sql
GenerateSqlCall(it, schema) ==
    /\ gen_pc = "idle"
    /\ gen_pc' = "optimizing"
    /\ intent' = it
    /\ schema_info' = schema
    /\ template_sql' = _generate_template_sql(it, schema)
    /\ optimized_sql' = ""
    /\ safety_score' = 0
    /\ sql_outcome' = NoOutcome
    /\ UNCHANGED <<nlp_vars, fn_vars>>

\* generate_sql with the safety check made on the template statement
GenerateSqlFinish_template_checked(response) ==
    /\ gen_pc = "optimizing"
    /\ gen_pc' = "done"
    /\ optimized_sql' = _gpt_optimize_sql(template_sql, response)
    /\ safety_score' = _check_sql_safety(template_sql)
    /\ sql_outcome' = generate_sql_result(optimized_sql', safety_score', schema_info)
    /\ UNCHANGED <<intent, schema_info, template_sql>>
    /\ UNCHANGED <<nlp_vars, fn_vars>>

\* generate_sql emptying the filters of the intent it was given
GenerateSqlFinish_filters_consumed(response) ==
    /\ gen_pc = "optimizing"
    /\ gen_pc' = "done"
    /\ optimized_sql' = _gpt_optimize_sql(template_sql, response)
    /\ safety_score' = _check_sql_safety(optimized_sql')
    /\ sql_outcome' = generate_sql_result(optimized_sql', safety_score', schema_info)
    /\ intent' = [intent EXCEPT !.filters = <<>>, !.dimensions = <<>>]
    /\ UNCHANGED <<schema_info, template_sql>>
    /\ UNCHANGED <<nlp_vars, fn_vars>>

\* the completion service answers (or fails) and generate_sql runs to its end
GenerateSqlFinish(response) ==
    /\ gen_pc = "optimizing"
    /\ gen_pc' = "done"
    /\ optimized_sql' = _gpt_optimize_sql(template_sql, response)
    /\ safety_score' = _check_sql_safety(optimized_sql')
    /\ sql_outcome' = generate_sql_result(optimized_sql', safety_score', schema_info)
    /\ UNCHANGED <<intent, schema_info, template_sql>>
    /\ UNCHANGED <<nlp_vars, fn_vars>>

\* the caller has taken the outcome; the frame of the call is gone
GenerateSqlDone ==
    /\ gen_pc = "done"
    /\ gen_pc' = "idle"
    /\ intent' = NoIntent
    /\ schema_info' = mock_schema
    /\ template_sql' = ""
    /\ optimized_sql' = ""
    /\ safety_score' = 0
    /\ sql_outcome' = NoOutcome
    /\ UNCHANGED <<nlp_vars, fn_vars>>

SqlNext ==
    \/ /\ \E it \in SqlIntents, schema \in Schemas : GenerateSqlCall(it, schema)
       /\ UNCHANGED <<process, call>>
    \/ /\ \E response \in OptimizeResponses : GenerateSqlFinish(response)
       /\ UNCHANGED <<process, call>>
    \/ /\ GenerateSqlDone
       /\ UNCHANGED <<process, call>>

SpecSql == SqlInit /\ [][SqlNext]_vars

-----------------------------------------------------------------------------
(* The calls of parse_query_intent the model makes *)

\* a processor just constructed, under any configuration of the key
NlpInit ==
    /\ openai_api_key \in ApiKeys
    /\ api_call_count = 0
    /\ api_cost_tracking = <<>>
    /\ clock = 0
    /\ refiner_calls = [issued |-> 0, failed |-> 0]
    /\ refiner_budget = MaxRefinerCalls
    /\ parse = [r \in Requests |-> IdleFrame]
    /\ SqlIdle
    /\ FnIdle
    /\ EngineIdle

\* a processor with a configured key that has, since its construction, made and
\* recorded all but StartBelowLimit of the calls the ceiling allows
NlpNearCeilingInit ==
    /\ openai_api_key = "sk-configured"
    /\ api_call_count = daily_limit - StartBelowLimit
    /\ api_cost_tracking =
           [i \in 1..(daily_limit - StartBelowLimit) |->
               [timestamp |-> 0, duration |-> 0, call_count |-> i]]
    /\ clock = 0
    /\ refiner_calls = [issued |-> daily_limit - StartBelowLimit, failed |-> 0]
    /\ refiner_budget = MaxRefinerCalls
    /\ parse = [r \in Requests |-> IdleFrame]
    /\ SqlIdle
    /\ FnIdle
    /\ EngineIdle

\* except Exception of parse_query_intent: whatever the body raises becomes
\* the QueryError INTENT_PARSING_ERROR
parse_query_intent_except(outcome) ==
    IF outcome.kind = "raise" THEN ParseRaised("INTENT_PARSING_ERROR") ELSE outcome

\* the handler of the refiner's exception letting a timeout through
refiner_failure_outcomes_timeout_raised(frame, result) ==
    IF result.error = "TimeoutError" THEN {ParseRaised("TimeoutError")}
    ELSE {ParseReturned(it) : it \in parse_locally(frame.natural_query).intents}

\* except Exception around the refiner call: the exception is logged and the
\* call goes on to _local_parse_intent
refiner_failure_outcomes(frame, result) ==
    {ParseReturned(it) : it \in parse_locally(frame.natural_query).intents}

\* parse_query_intent up to its return, or up to the await of the completion
\* service when use_openai and the gate allow the refiner
ParseCall(r, natural_query, use_openai) ==
    /\ parse[r].pc = "idle"
    /\ \E local \in {parse_locally(natural_query)} :
         \E frame \in {[pc |-> "awaiting", natural_query |-> natural_query,
                        use_openai |-> use_openai, cleaned_query |-> local.cleaned_query,
                        base_type |-> local.base_type, start_time |-> clock,
                        response |-> NoResponse, outcome |-> NoParseOutcome]} :
            IF use_openai /\ _should_use_openai
            THEN /\ refiner_budget > 0
                 /\ parse' = [parse EXCEPT ![r] = frame]
                 /\ refiner_calls' = [refiner_calls EXCEPT !.issued = @ + 1]
                 /\ refiner_budget' = refiner_budget - 1
            ELSE /\ \E it \in local.intents :
                        parse' = [parse EXCEPT ![r] =
                                     [frame EXCEPT !.pc = "done",
                                                   !.outcome = parse_query_intent_except(ParseReturned(it))]]
                 /\ UNCHANGED <<refiner_calls, refiner_budget>>
    /\ UNCHANGED <<openai_api_key, api_call_count, api_cost_tracking, clock>>
    /\ UNCHANGED <<sql_vars, fn_vars>>

\* the completion service answers, and a failed call is issued again while the
\* model has refiner calls left
ParseRefinerAnswers_retrying(r, response) ==
    LET result == _openai_parse_intent(response)
        tracked == _track_api_usage(api_call_count, api_cost_tracking,
                                    parse[r].start_time, clock)
    IN  /\ parse[r].pc = "awaiting"
        /\ IF result.ok
           THEN /\ api_call_count' = tracked.api_call_count
                /\ api_cost_tracking' = tracked.api_cost_tracking
                /\ parse' = [parse EXCEPT ![r].pc = "done", ![r].response = response,
                                          ![r].outcome = ParseReturned(result.intent)]
                /\ UNCHANGED <<refiner_calls, refiner_budget>>
           ELSE IF refiner_budget > 0
           THEN /\ parse' = [parse EXCEPT ![r].response = response]
                /\ refiner_calls' = [issued |-> refiner_calls.issued + 1,
                                     failed |-> refiner_calls.failed + 1]
                /\ refiner_budget' = refiner_budget - 1
                /\ UNCHANGED <<api_call_count, api_cost_tracking>>
           ELSE /\ \E outcome \in refiner_failure_outcomes(parse[r], result) :
                       parse' = [parse EXCEPT ![r].pc = "done", ![r].response = response,
                                              ![r].outcome = parse_query_intent_except(outcome)]
                /\ refiner_calls' = [refiner_calls EXCEPT !.failed = @ + 1]
                /\ UNCHANGED <<api_call_count, api_cost_tracking, refiner_budget>>
        /\ UNCHANGED <<openai_api_key, clock>>
        /\ UNCHANGED <<sql_vars, fn_vars>>

\* the completion service answers (or fails) and parse_query_intent runs to its
\* end: the refined intent with the call recorded, or the local intent
ParseRefinerAnswers(r, response) ==
    LET result == _openai_parse_intent(response)
        tracked == _track_api_usage(api_call_count, api_cost_tracking,
                                    parse[r].start_time, clock)
    IN  /\ parse[r].pc = "awaiting"
        /\ IF result.ok
           THEN /\ api_call_count' = tracked.api_call_count
                /\ api_cost_tracking' = tracked.api_cost_tracking
                /\ parse' = [parse EXCEPT ![r].pc = "done", ![r].response = response,
                                          ![r].outcome = ParseReturned(result.intent)]
                /\ UNCHANGED refiner_calls
           ELSE /\ \E outcome \in refiner_failure_outcomes(parse[r], result) :
                       parse' = [parse EXCEPT ![r].pc = "done", ![r].response = response,
                                              ![r].outcome = parse_query_intent_except(outcome)]
                /\ refiner_calls' = [refiner_calls EXCEPT !.failed = @ + 1]
                /\ UNCHANGED <<api_call_count, api_cost_tracking>>
        /\ UNCHANGED <<openai_api_key, clock, refiner_budget>>
        /\ UNCHANGED <<sql_vars, fn_vars>>

\* the caller has taken the outcome; the frame of the call is gone
ParseDone(r) ==
    /\ parse[r].pc = "done"
    /\ parse' = [parse EXCEPT ![r] = IdleFrame]
    /\ UNCHANGED <<openai_api_key, api_call_count, api_cost_tracking, clock,
                   refiner_calls, refiner_budget>>
    /\ UNCHANGED <<sql_vars, fn_vars>>

\* midnight passes
DayElapses ==
    /\ clock < MaxDays
    /\ clock' = clock + 1
    /\ UNCHANGED <<openai_api_key, api_call_count, api_cost_tracking,
                   refiner_calls, refiner_budget, parse>>
    /\ UNCHANGED <<sql_vars, fn_vars>>

NlpNext ==
    \/ /\ \E r \in Requests, q \in NlpQueries, use_openai \in BOOLEAN :
              ParseCall(r, q, use_openai)
       /\ UNCHANGED <<process, call>>
    \/ /\ \E r \in Requests, response \in RefinerResponses : ParseRefinerAnswers(r, response)
       /\ UNCHANGED <<process, call>>
    \/ /\ \E r \in Requests : ParseDone(r)
       /\ UNCHANGED <<process, call>>
    \/ /\ DayElapses
       /\ UNCHANGED <<process, call>>

SpecNlp == NlpInit /\ [][NlpNext]_vars

\* the same calls, on a processor just constructed or close to the ceiling
SpecNlpCeiling == (NlpInit \/ NlpNearCeilingInit) /\ [][NlpNext]_vars

-----------------------------------------------------------------------------
(* Concurrent calls of parse_query_intent on one NLPProcessorV2: coroutines of *)
(* one event loop, which change hands at the await of the completion service   *)
(* and nowhere else                                                            *)

\* the calls of parse_query_intent in flight at once
NumConcurrent == 2
\* the refiner calls the model issues in one run of the concurrent calls
MaxConcurrentCalls == 3

ConcurrentRequests == 1..NumConcurrent

ConcurrentQueries == {<<>>, query_trend}

\* the await raises, or the service answers with a valid intent
ConcurrentResponses ==
    {response \in RefinerResponses :
        \/ response.kind = "timeout"
        \/ response.kind = "json" /\ response.data = [query_type |-> "ranking",
                                                      entities |-> {word_department},
                                                      confidence |-> 950]}

\* a processor with a configured key, just constructed or StartBelowLimit
\* recorded calls below the ceiling
ConcurrentInit ==
    /\ openai_api_key = "sk-configured"
    /\ api_call_count \in {0, daily_limit - StartBelowLimit}
    /\ api_cost_tracking =
           [i \in 1..api_call_count |-> [timestamp |-> 0, duration |-> 0, call_count |-> i]]
    /\ clock = 0
    /\ refiner_calls = [issued |-> api_call_count, failed |-> 0]
    /\ refiner_budget = MaxConcurrentCalls
    /\ parse = [r \in ConcurrentRequests |-> IdleFrame]
    /\ SqlIdle
    /\ FnIdle
    /\ EngineIdle

ConcurrentNext ==
    \/ /\ \E r \in ConcurrentRequests, q \in ConcurrentQueries, use_openai \in BOOLEAN :
              ParseCall(r, q, use_openai)
       /\ UNCHANGED <<process, call>>
    \/ /\ \E r \in ConcurrentRequests, response \in ConcurrentResponses :
              ParseRefinerAnswers(r, response)
       /\ UNCHANGED <<process, call>>
    \/ /\ \E r \in ConcurrentRequests : ParseDone(r)
       /\ UNCHANGED <<process, call>>
    \/ /\ DayElapses
       /\ UNCHANGED <<process, call>>

SpecNlpConcurrent == ConcurrentInit /\ [][ConcurrentNext]_vars

-----------------------------------------------------------------------------
(* The calls of _pattern_classify the model makes on texts of its own *)

\* the pieces the texts are put together from: a word of each category, the
\* conjunction that the comparison patterns take, and a letter no pattern takes
ClassifyWords ==
    {<<36235, 21183>>,   \* 趋势 (trend)
     <<23545, 27604>>,   \* 对比 (comparison)
     <<25490, 21517>>,   \* 排名 (ranking)
     <<24179, 22343>>,   \* 平均 (statistics)
     <<21344, 27604>>,   \* 占比 (proportion)
     <<21644>>,          \* 和 (comparison, by .*?和.*?)
     <<97>>}             \* a

\* the longest text handed to _pattern_classify, in characters
MaxClassifyLen == 5

ClassifyInit ==
    /\ ClassifyIdle
    /\ ChartIdle
    /\ SqlIdle
    /\ NlpIdle
    /\ EngineIdle

\* the caller's text grows by a word
ClassifyExtend(word) ==
    /\ Len(classify_query) + Len(word) <= MaxClassifyLen
    /\ classify_query' = classify_query \o word
    /\ classify_type' = "none"
    /\ UNCHANGED <<sql_vars, nlp_vars, chart_vars>>

\* _pattern_classify(classify_query) returns
ClassifyCall ==
    /\ classify_type = "none"
    /\ classify_type' = _pattern_classify(classify_query)
    /\ UNCHANGED classify_query
    /\ UNCHANGED <<sql_vars, nlp_vars, chart_vars>>

ClassifyNext ==
    \/ /\ \E word \in ClassifyWords : ClassifyExtend(word)
       /\ UNCHANGED <<process, call>>
    \/ /\ ClassifyCall
       /\ UNCHANGED <<process, call>>

SpecClassify == ClassifyInit /\ [][ClassifyNext]_vars

-----------------------------------------------------------------------------
(* The calls of recommend_chart the model makes *)

StrValue(text) == [type |-> "str", text |-> text]
IntValue == [type |-> "int", text |-> ""]
BoolValue == [type |-> "bool", text |-> ""]
NoneValue == [type |-> "NoneType", text |-> ""]
ListValue == [type |-> "list", text |-> ""]

Dict(items) == [is_dict |-> TRUE, items |-> items]
\* a row that is not a record
NotADict == [is_dict |-> FALSE, items |-> <<>>]

\* the first rows of the previews
SampleRows ==
    {Dict(<<<<"date", StrValue("2024-01")>>, <<"value", IntValue>>>>),
     Dict(<<<<"amount", StrValue("12.5")>>, <<"Created_At", StrValue("north")>>>>),
     Dict(<<<<"category", StrValue("A")>>, <<"value", IntValue>>>>),
     Dict(<<<<"name", StrValue("A")>>, <<"score", StrValue(" -7e1 ")>>>>),
     Dict(<<<<"name", StrValue("A")>>, <<"label", StrValue("1.2.3")>>>>),
     Dict(<<<<"total", IntValue>>>>),
     Dict(<<<<"date", StrValue("2024-01")>>>>),
     Dict(<<<<"a", NoneValue>>, <<"b", ListValue>>>>),
     Dict(<<<<"flag", BoolValue>>, <<"ratio", StrValue("nan")>>>>),
     Dict(<<>>),
     NotADict}

\* the largest number of rows of a preview
MaxPreviewRows == 51

\* the numbers of rows of the previews, on both sides of each boundary
RowCounts == {1, 4, 5, 6, 12, 20, 21, 30, 50, MaxPreviewRows}

\* None, the empty list, and each sample as the first of n rows
Previews ==
    {NoPreview, [given |-> TRUE, rows |-> <<>>]}
    \cup {[given |-> TRUE, rows |-> [i \in 1..n |-> row]] : row \in SampleRows, n \in RowCounts}

\* the values of intent.query_type: the five categories and one the rule table
\* does not have
ChartQueryTypes == QueryTypes \cup {"forecast"}

ChartInit ==
    /\ ChartIdle
    /\ ClassifyIdle
    /\ SqlIdle
    /\ NlpIdle
    /\ EngineIdle

\* recommend_chart(intent, data_preview) returns
RecommendChartCall(query_type, data_preview) ==
    /\ chart_result = "none"
    /\ chart_query_type' = query_type
    /\ chart_preview' = data_preview
    /\ chart_result' = recommend_chart(query_type, data_preview)
    /\ UNCHANGED <<sql_vars, nlp_vars, classify_vars>>

\* the caller has taken the chart
RecommendChartDone ==
    /\ chart_result # "none"
    /\ chart_query_type' = "statistics"
    /\ chart_preview' = NoPreview
    /\ chart_result' = "none"
    /\ UNCHANGED <<sql_vars, nlp_vars, classify_vars>>

ChartNext ==
    \/ /\ \E query_type \in ChartQueryTypes, data_preview \in Previews :
              RecommendChartCall(query_type, data_preview)
       /\ UNCHANGED <<process, call>>
    \/ /\ RecommendChartDone
       /\ UNCHANGED <<process, call>>

SpecChart == ChartInit /\ [][ChartNext]_vars

-----------------------------------------------------------------------------
(* AIEngine.process_query.  The engine hands the QueryIntent of the parser to  *)
(* the generator and the recommender as it is; in the model the text of the    *)
(* parser is a sequence of code points and the text of the generator a string, *)
(* so the str objects of the intent are written over character by character.   *)
(* A character outside 32..126, and the backtick, is written as its escape    *)
(* \uXXXX: lower() leaves it alone, as it leaves the character, and no column  *)
(* name of a schema is part of it or holds it.                                 *)

\* the characters of the code points 32..95 and 97..126, in order
ascii_to_underscore ==
    " !\"#$%&'()*+,-./0123456789:;<=>?@ABCDEFGHIJKLMNOPQRSTUVWXYZ[\\]^_"
ascii_from_a == "abcdefghijklmnopqrstuvwxyz{|}~"

hex_digits == "0123456789abcdef"

hex_digit(n) == SubSeq(hex_digits, n + 1, n + 1)

\* the one-character str of a code point
chr(c) ==
    IF c >= 32 /\ c <= 95 THEN SubSeq(ascii_to_underscore, c - 31, c - 31)
    ELSE IF c >= 97 /\ c <= 126 THEN SubSeq(ascii_from_a, c - 96, c - 96)
    ELSE "\\u" \o hex_digit((c \div 4096) % 16) \o hex_digit((c \div 256) % 16)
                \o hex_digit((c \div 16) % 16) \o hex_digit(c % 16)

\* a str of the parser as the generator reads it
RECURSIVE as_str(_)
as_str(text) == IF Len(text) = 0 THEN "" ELSE chr(Head(text)) \o as_str(Tail(text))

RECURSIVE as_strs(_)
as_strs(texts) ==
    IF Len(texts) = 0 THEN <<>> ELSE <<as_str(Head(texts))>> \o as_strs(Tail(texts))

\* the intent of the parser as the generator reads it
intent_as_str(it) ==
    [it EXCEPT !.time_range = IF it.time_range = None THEN None
                              ELSE Some(as_str(it.time_range[1])),
               !.dimensions = as_strs(it.dimensions),
               !.metrics = as_strs(it.metrics)]

\* the request the engine of the model works on
EngineRequest == CHOOSE r \in Requests : TRUE

\* process_query up to the first await of parse_query_intent, called with the
\* default use_openai=True, or up to its return when the gate keeps it local
ProcessQueryCall(natural_query) ==
    /\ UNCHANGED call
    /\ process.pc = "idle"
    /\ ParseCall(EngineRequest, natural_query, TRUE)
    /\ process' = [IdleProcess EXCEPT
                      !.pc = "parsing",
                      !.external_calls =
                          IF parse'[EngineRequest].pc = "awaiting" THEN 1 ELSE 0]

\* the completion service answers the refiner and parse_query_intent runs to
\* its end
ProcessRefinerAnswers(response) ==
    /\ UNCHANGED call
    /\ process.pc = "parsing"
    /\ ParseRefinerAnswers(EngineRequest, response)
    /\ UNCHANGED process

\* parse_query_intent returned the intent (on the str of a QueryRequest it
\* has nothing to raise); generate_sql(intent, mock_schema) runs up to the
\* await of _gpt_optimize_sql, which calls the completion service of its own
\* client whatever the key and the counter are
ProcessGenerateSql ==
    /\ UNCHANGED call
    /\ process.pc = "parsing"
    /\ parse[EngineRequest].pc = "done"
    /\ parse[EngineRequest].outcome.kind = "return"
    /\ process' = [process EXCEPT
                      !.pc = "generating",
                      !.intent = parse[EngineRequest].outcome.intent,
                      !.external_calls = @ + 1]
    /\ GenerateSqlCall(intent_as_str(parse[EngineRequest].outcome.intent), mock_schema)

\* the completion service answers the optimisation and generate_sql runs to
\* its end
ProcessOptimizeAnswers(response) ==
    /\ UNCHANGED call
    /\ process.pc = "generating"
    /\ GenerateSqlFinish(response)
    /\ UNCHANGED process

\* an exception a stage raises: a QueryError with its error_type, or another
\* Exception
RaisedQueryError(error_type) == [is_query_error |-> TRUE, error_type |-> error_type]
RaisedException == [is_query_error |-> FALSE, error_type |-> ""]

\* every exception becomes the processing error
process_query_except_all_wrapped(e) == QueryError("PROCESSING_ERROR")

\* the except clauses of process_query: a QueryError is raised again as it
\* is, any other Exception becomes the QueryError of type PROCESSING_ERROR
process_query_except(e) ==
    IF e.is_query_error THEN QueryError(e.error_type)
    ELSE QueryError("PROCESSING_ERROR")

\* generate_sql raised its QueryError: except QueryError raises it again
ProcessGenerateFailed ==
    /\ UNCHANGED call
    /\ process.pc = "generating"
    /\ gen_pc = "done"
    /\ sql_outcome.kind = "raise"
    /\ process' = [process EXCEPT
                      !.pc = "done",
                      !.outcome = process_query_except(RaisedQueryError(sql_outcome.error_type))]
    /\ UNCHANGED <<sql_vars, nlp_vars, fn_vars>>

FloatValue == [type |-> "float", text |-> ""]

\* _generate_mock_data: the rows of the result, by the category of the intent;
\* the rows of a list have the keys and the types of values of this one
mock_row(query_type) ==
    CASE query_type = "trend" ->
            Dict(<<<<"date", StrValue("2024-01")>>, <<"value", IntValue>>>>)
      [] query_type = "comparison" ->
            Dict(<<<<"category", StrValue("\\u4ea7\\u54c1A")>>, <<"value", IntValue>>>>)
      [] query_type = "ranking" ->
            Dict(<<<<"rank", IntValue>>, <<"name", StrValue("\\u9500\\u552e\\u90e8")>>,
                   <<"score", FloatValue>>>>)
      [] query_type = "statistics" ->
            Dict(<<<<"total_count", IntValue>>, <<"avg_value", FloatValue>>,
                   <<"sum_value", IntValue>>, <<"max_value", FloatValue>>,
                   <<"min_value", FloatValue>>>>)
      [] query_type = "proportion" ->
            Dict(<<<<"category", StrValue("\\u534e\\u5317")>>, <<"value", IntValue>>,
                   <<"percentage", FloatValue>>>>)
      [] OTHER ->
            Dict(<<<<"message", StrValue("\\u67e5\\u8be2\\u5b8c\\u6210")>>,
                   <<"count", IntValue>>>>)

mock_row_count(query_type) ==
    CASE query_type = "trend" -> 5
      [] query_type \in {"comparison", "ranking", "proportion"} -> 4
      [] OTHER -> 1

_generate_mock_data(query_type) ==
    [i \in 1..mock_row_count(query_type) |-> mock_row(query_type)]

\* the fourth step moved before the third, its rows given to the recommender
ProcessRecommendChart_with_preview ==
    /\ UNCHANGED call
    /\ process.pc = "generating"
    /\ gen_pc = "done"
    /\ sql_outcome.kind = "return"
    /\ RecommendChartCall(process.intent.query_type,
                          [given |-> TRUE,
                           rows |-> _generate_mock_data(process.intent.query_type)])
    /\ process' = [process EXCEPT
                      !.pc = "done",
                      !.outcome = QueryResult(process.intent, sql_outcome, chart_result',
                                              _generate_mock_data(process.intent.query_type))]

\* generate_sql returned; recommend_chart(intent) is called without a preview,
\* then the rows are made and the QueryResult is built
ProcessRecommendChart ==
    /\ UNCHANGED call
    /\ process.pc = "generating"
    /\ gen_pc = "done"
    /\ sql_outcome.kind = "return"
    /\ RecommendChartCall(process.intent.query_type, NoPreview)
    /\ process' = [process EXCEPT
                      !.pc = "done",
                      !.outcome = QueryResult(process.intent, sql_outcome, chart_result',
                                              _generate_mock_data(process.intent.query_type))]

\* the caller has taken the result or the error; the frames of the request
\* are gone
ProcessQueryDone ==
    /\ UNCHANGED call
    /\ process.pc = "done"
    /\ process' = IdleProcess
    /\ parse' = [parse EXCEPT ![EngineRequest] = IdleFrame]
    /\ gen_pc' = "idle"
    /\ intent' = NoIntent
    /\ schema_info' = mock_schema
    /\ template_sql' = ""
    /\ optimized_sql' = ""
    /\ safety_score' = 0
    /\ sql_outcome' = NoOutcome
    /\ chart_query_type' = "statistics"
    /\ chart_preview' = NoPreview
    /\ chart_result' = "none"
    /\ UNCHANGED <<openai_api_key, api_call_count, api_cost_tracking, clock,
                   refiner_calls, refiner_budget, classify_vars>>

\* an engine just constructed, under any configuration of the key
EngineInit == NlpInit

EngineNext ==
    \/ \E natural_query \in NlpQueries : ProcessQueryCall(natural_query)
    \/ \E response \in RefinerResponses : ProcessRefinerAnswers(response)
    \/ ProcessGenerateSql
    \/ \E response \in OptimizeResponses : ProcessOptimizeAnswers(response)
    \/ ProcessGenerateFailed
    \/ ProcessRecommendChart
    \/ ProcessQueryDone

SpecEngine == EngineInit /\ [][EngineNext]_vars

-----------------------------------------------------------------------------
(* The calls of _preprocess_query the model makes on texts of its own *)

\* the pieces of the texts: space, tab, the full-width comma, the quotation
\* mark, a letter, and the characters of the time words 过去, 去年, 本月
PreprocessWords ==
    {<<32>>, <<9>>, <<65292>>, <<34>>, <<97>>, <<36807>>, <<21435>>, <<24180>>,
     <<26412, 26376>>}

\* the longest text handed to _preprocess_query
MaxPreprocessLen == 5

PreprocessInit ==
    /\ call = [fn |-> "_preprocess_query", args |-> <<<<>>>>, done |-> FALSE, result |-> <<>>]
    /\ process = IdleProcess
    /\ SqlIdle
    /\ NlpIdle
    /\ FnIdle

\* the caller's text grows by a piece
PreprocessExtend(word) ==
    /\ Len(call.args[1]) + Len(word) <= MaxPreprocessLen
    /\ call' = [call EXCEPT !.args = <<call.args[1] \o word>>, !.done = FALSE,
                            !.result = <<>>]
    /\ UNCHANGED <<sql_vars, nlp_vars, fn_vars, process>>

\* _preprocess_query(query) returns
PreprocessCall ==
    /\ ~call.done
    /\ call' = [call EXCEPT !.done = TRUE, !.result = _preprocess_query(call.args[1])]
    /\ UNCHANGED <<sql_vars, nlp_vars, fn_vars, process>>

PreprocessNext ==
    \/ \E word \in PreprocessWords : PreprocessExtend(word)
    \/ PreprocessCall

SpecPreprocess == PreprocessInit /\ [][PreprocessNext]_vars

-----------------------------------------------------------------------------
(* The calls of _map_entities_to_columns the model makes *)

MapEntityWords == {"", "a", "Region", "AMOUNT", "zzz", "total_amount_usd"}

\* the longest list of entities handed to _map_entities_to_columns
MaxEntities == 2

MapEntityLists ==
    UNION {[1..n -> MapEntityWords] : n \in 0..MaxEntities}

MapColumnLists ==
    {<<>>,
     <<"date", "product", "amount", "region">>,
     <<"region_code", "Region", "usd", "amount", "Amount_Net">>,
     mock_schema.columns}

MapEntitiesInit ==
    /\ EngineIdle
    /\ SqlIdle
    /\ NlpIdle
    /\ FnIdle

\* _map_entities_to_columns(entities, available_columns) returns
MapEntitiesCall(entities, available_columns) ==
    /\ call = IdleCall
    /\ call' = [fn |-> "_map_entities_to_columns",
                args |-> <<entities, available_columns>>, done |-> TRUE,
                result |-> _map_entities_to_columns(entities, available_columns)]
    /\ UNCHANGED <<sql_vars, nlp_vars, fn_vars, process>>

\* the caller has taken the list
MapEntitiesDone ==
    /\ call.fn = "_map_entities_to_columns"
    /\ call.done
    /\ call' = IdleCall
    /\ UNCHANGED <<sql_vars, nlp_vars, fn_vars, process>>

MapEntitiesNext ==
    \/ \E entities \in MapEntityLists, available_columns \in MapColumnLists :
           MapEntitiesCall(entities, available_columns)
    \/ MapEntitiesDone

SpecMapEntities == MapEntitiesInit /\ [][MapEntitiesNext]_vars

-----------------------------------------------------------------------------
(* Properties of SQLGenerator *)

\* sql contains a denylisted keyword, letter case ignored
HasDenylistedKeyword(sql) ==
    LET lowered == Lower(sql)
    IN  \E i \in 1..Len(dangerous_keywords) :
            Contains(lowered, Lower(dangerous_keywords[i]))

\* C1: a SQLQuery returned by generate_sql has safety_score >= 0.8, and that score
\* is the one _check_sql_safety gives for the returned statement, which is the
\* statement that came out of the optimisation step
C1_ReturnedQueryIsSafe ==
    sql_outcome.kind = "return" =>
        /\ sql_outcome.safety_score >= 8
        /\ sql_outcome.sql = optimized_sql
        /\ sql_outcome.safety_score = _check_sql_safety(sql_outcome.sql)

\* a query is returned whose statement is not the template and scores exactly 0.8
C1_Witness ==
    /\ gen_pc = "done"
    /\ sql_outcome.kind = "return"
    /\ sql_outcome.sql # template_sql
    /\ sql_outcome.safety_score = 8

\* C2: the safety score of a statement is 0.0 exactly when the statement contains
\* a denylisted keyword, whatever its letter case
C2_ZeroIffDenylisted ==
    gen_pc = "done" => (safety_score = 0 <=> HasDenylistedKeyword(optimized_sql))

\* a statement with a lower-case denylisted keyword has been scored 0.0
C2_Witness ==
    /\ gen_pc = "done"
    /\ safety_score = 0
    /\ ~(\E i \in 1..Len(dangerous_keywords) : Contains(optimized_sql, dangerous_keywords[i]))

\* C3: when the safety score is below 0.8 the caller of generate_sql gets the
\* error of type SQL_SAFETY_ERROR
C3_SafetyErrorReachesCaller ==
    (gen_pc = "done" /\ safety_score < 8) =>
        (sql_outcome.kind = "raise" /\ sql_outcome.error_type = "SQL_SAFETY_ERROR")

\* C4: with no dimensions, no metrics, no time range and no filters, and the
\* optimisation step leaving the template unchanged, generate_sql returns a query
\* whose statement has every placeholder filled
C4_DefaultsNeverFail ==
    (/\ gen_pc = "done"
     /\ intent.dimensions = <<>> /\ intent.metrics = <<>>
     /\ intent.time_range = None /\ intent.filters = <<>>
     /\ optimized_sql = template_sql) =>
        (/\ sql_outcome.kind = "return"
         /\ ~Contains(sql_outcome.sql, "{") /\ ~Contains(sql_outcome.sql, "}"))

\* sql begins with the keyword SELECT, in any letter case
BeginsWithSelect(sql) ==
    /\ first_token(sql) # <<>>
    /\ first_token(sql)[2]
    /\ Upper(first_token(sql)[1]) = "SELECT"

\* a second statement follows a semicolon of sql: the text after the semicolon
\* and its whitespace starts with a word
HasSecondStatement(sql) ==
    \E i \in 1..Len(sql) :
        /\ SubSeq(sql, i, i) = ";"
        /\ \E j \in (i + 1)..Len(sql) :
               /\ SubSeq(sql, j, j) \in WordChars
               /\ \A k \in (i + 1)..(j - 1) : SubSeq(sql, k, k) \in WhitespaceChars

\* C13: a statement without denylisted keywords that is not exactly one statement
\* beginning with SELECT scores at most 0.3 and is not returned by generate_sql
C13_OnlySingleSelectScoresAbove03 ==
    (/\ gen_pc = "done"
     /\ ~HasDenylistedKeyword(optimized_sql)
     /\ (~BeginsWithSelect(optimized_sql) \/ HasSecondStatement(optimized_sql))) =>
        (safety_score <= 3 /\ sql_outcome.kind # "return")

\* C14: the estimated cost of every SQLQuery generate_sql returns is at least 1,
\* whatever the letter case of its SELECT keyword
C14_EstimatedCostAtLeastOne ==
    sql_outcome.kind = "return" => sql_outcome.estimated_cost >= 1

\* the first token of the statement is the keyword SELECT, in any letter case
FirstTokenIsSelect(sql) ==
    /\ sql # ""
    /\ first_token(sql) # <<>>
    /\ first_token(sql)[2]
    /\ Upper(first_token(sql)[1]) = "SELECT"

\* a quote followed by a semicolon, or one of the comment marks
HasInjectionIndicator(sql) ==
    \E mark \in {"';", "\";", "--", "/*", "*/"} : Contains(sql, mark)

\* the text SELECT occurs more than three times
HasNestedSelects(sql) == Count(sql, "SELECT") > 3

C22_WitnessBothDeductions ==
    /\ gen_pc = "done"
    /\ FirstTokenIsSelect(optimized_sql)
    /\ HasNestedSelects(optimized_sql)
    /\ HasInjectionIndicator(optimized_sql)
    /\ safety_score = 5
    /\ sql_outcome.kind = "raise"

\* the occurrences of a keyword in the statement, in any letter case
KeywordOccurrences(sql, keyword) == Count(Upper(sql), keyword)

\* C23: the estimated cost of a statement is 1, plus 2 for each JOIN, plus 3 for
\* each SELECT beyond the first, plus 1 for each of GROUP BY, ORDER BY, DISTINCT
\* and UNION that is present, the keywords counted in any letter case
C23_CostFormulaAnyLetterCase ==
    (gen_pc = "done" /\ sql_outcome.kind = "return") =>
        sql_outcome.estimated_cost =
            1 + 2 * KeywordOccurrences(sql_outcome.sql, "JOIN")
              + 3 * (KeywordOccurrences(sql_outcome.sql, "SELECT") - 1)
              + Cardinality({feature \in {"GROUP BY", "ORDER BY", "DISTINCT", "UNION"} :
                                KeywordOccurrences(sql_outcome.sql, feature) > 0})

\* the places of the columns related to the entity: the lower-cased name
\* contains the lower-cased entity or is contained in it
RelatedPlaces(entity, columns) ==
    {i \in 1..Len(columns) :
        \/ Contains(Lower(columns[i]), Lower(entity))
        \/ Contains(Lower(entity), Lower(columns[i]))}

\* the places of the entities that have a related column, in order
MatchedEntities(entities, columns) ==
    LET matched(j) == RelatedPlaces(entities[j], columns) # {}
    IN  SelectSeq([j \in 1..Len(entities) |-> j], matched)

GivenColumns == schema_get(schema_info, "columns", <<>>)

\* C29: only the TREND template takes the time filter and only the other four
\* take the generic filter: for COMPARISON, RANKING, STATISTICS and PROPORTION
\* the template statement is the same whatever the time_range of the intent is
\* and has the generic filter after WHERE; for TREND it is the same whatever
\* the filters are and has the time filter after WHERE
C29_TimeFilterOnlyInTrend ==
    gen_pc # "idle" =>
        IF intent.query_type = "trend"
        THEN /\ \A filters \in SqlFilters :
                    _generate_template_sql([intent EXCEPT !.filters = filters], schema_info)
                        = template_sql
             /\ Contains(template_sql,
                         "WHERE " \o _build_time_filter(intent.time_range, GivenColumns))
        ELSE /\ \A time_range \in SqlTimeRanges :
                    _generate_template_sql([intent EXCEPT !.time_range = time_range],
                                           schema_info) = template_sql
             /\ Contains(template_sql,
                         "WHERE " \o _build_where_conditions(intent.filters, GivenColumns))

\* a ranking statement was generated for an intent whose time range has a
\* filter on the columns given, and the statement has no trace of it
C29_Witness ==
    /\ gen_pc # "idle"
    /\ intent.query_type = "ranking"
    /\ _build_time_filter(intent.time_range, GivenColumns) # "1=1"
    /\ ~Contains(template_sql, "DATE_TRUNC")
    /\ Len(intent.filters) > 0

\* a trend statement was generated for an intent with filters, and the
\* statement has its time filter and no condition of the filters
C29_WitnessTrend ==
    /\ gen_pc # "idle"
    /\ intent.query_type = "trend"
    /\ Len(intent.filters) > 0
    /\ ~Contains(template_sql, "LIKE")
    /\ Contains(template_sql, "DATE_TRUNC")

-----------------------------------------------------------------------------
(* Properties of NLPProcessorV2 *)

\* the answer of the completion service is one of the failures of the
\* refinement call: a timeout, a network error, no JSON object, a JSON object
\* without query_type, entities or confidence, or one QueryIntent rejects
RefinementFailed(response) ==
    \/ response.kind \in {"timeout", "error", "text", "malformed"}
    \/ /\ response.kind = "json"
       /\ \/ ~({"query_type", "entities", "confidence"} \subseteq DOMAIN response.data)
          \/ response.data.query_type
                 \notin {"trend", "comparison", "ranking", "statistics", "proportion"}
          \/ response.data.confidence < 0
          \/ response.data.confidence > 1000

\* C5: when the refinement call fails (timeout, network error, no JSON object,
\* missing members, rejected by QueryIntent), parse_query_intent raises nothing
\* and returns an intent of _local_parse_intent with the classifier's category
C5_RefinerFailureFallsBackToLocal ==
    \A r \in Requests :
        (parse[r].pc = "done" /\ RefinementFailed(parse[r].response)) =>
            /\ parse[r].outcome.kind = "return"
            /\ parse[r].outcome.intent \in parse_locally(parse[r].natural_query).intents
            /\ parse[r].outcome.intent.query_type = parse[r].base_type

\* a call whose refinement timed out has returned an intent
C5_Witness ==
    \E r \in Requests :
        /\ parse[r].pc = "done"
        /\ parse[r].response.kind = "timeout"
        /\ parse[r].outcome.kind = "return"

\* C6: while api_call_count is at the ceiling of 1000 or above, or the API key is
\* empty or the placeholder, no step issues a refinement call, and a call of
\* parse_query_intent that starts returns at once with the local intent
C6_GatedCallsStayLocal ==
    [][(api_call_count >= 1000 \/ openai_api_key \in {"", "test_key_placeholder"}) =>
          /\ refiner_calls'.issued = refiner_calls.issued
          /\ \A r \in Requests :
                 (parse[r].pc = "idle" /\ parse'[r].pc # "idle") =>
                     /\ parse'[r].pc = "done"
                     /\ parse'[r].outcome.kind = "return"
                     /\ parse'[r].outcome.intent
                            \in parse_locally(parse'[r].natural_query).intents]_vars

\* with the counter at the ceiling, a call that asked for the refiner has
\* returned without an answer of the completion service
C6_Witness ==
    \E r \in Requests :
        /\ parse[r].pc = "done"
        /\ parse[r].use_openai
        /\ parse[r].response = NoResponse
        /\ parse[r].outcome.kind = "return"
        /\ openai_api_key = "sk-configured"
        /\ api_call_count >= 1000

\* C7: whenever no call is waiting for the completion service, api_call_count
\* equals the number of refinement calls issued, the failed ones included
C7_CounterCountsEveryCall ==
    (\A r \in Requests : parse[r].pc # "awaiting") =>
        api_call_count = refiner_calls.issued

\* C8: the counter resets daily: when the day changes, api_call_count is zero
\* afterwards
C8_CounterResetsDaily ==
    [][clock' > clock => api_call_count' = 0]_vars

\* C9: every intent parse_query_intent returns, local or refined, has a
\* confidence between 0 and 1
C9_ConfidenceInRange ==
    \A r \in Requests :
        parse[r].outcome.kind = "return" =>
            /\ parse[r].outcome.intent.confidence >= 0
            /\ parse[r].outcome.intent.confidence <= 1000

\* the completion service supplied a confidence above 1 and the call returned
C9_Witness ==
    \E r \in Requests :
        /\ parse[r].pc = "done"
        /\ parse[r].response.kind = "json"
        /\ "confidence" \in DOMAIN parse[r].response.data
        /\ parse[r].response.data.confidence > 1000
        /\ parse[r].outcome.kind = "return"

\* C10: a locally computed intent with at least 3 entities, a time range, at
\* least 1 dimension and at least 1 metric has a confidence of at least 0.7
C10_RichIntentScoresAtLeast07 ==
    \A r \in Requests :
        (/\ parse[r].pc = "done"
         /\ parse[r].outcome.kind = "return"
         /\ parse[r].outcome.intent \in parse_locally(parse[r].natural_query).intents
         /\ Cardinality(parse[r].outcome.intent.entities) >= 3
         /\ parse[r].outcome.intent.time_range # None
         /\ Len(parse[r].outcome.intent.dimensions) >= 1
         /\ Len(parse[r].outcome.intent.metrics) >= 1) =>
            parse[r].outcome.intent.confidence >= 700

-----------------------------------------------------------------------------
(* Properties of _pattern_classify *)

\* re.search finds no pattern of any category in the query
NoPatternMatches(query) ==
    \A k \in 1..Len(pattern_order) :
        \A j \in 1..Len(query_patterns[pattern_order[k]]) :
            ~re_search(query_patterns[pattern_order[k]][j], query)

\* the summed findall count of the category at place k of the fixed order
CategoryScore(k, query) == type_score(query_patterns[pattern_order[k]], query, 1)

\* C11: _pattern_classify always returns one of the five categories, and it
\* returns statistics for the empty text and for every text in which no pattern
\* of any category matches
C11_UnmatchedTextIsStatistics ==
    classify_type # "none" =>
        /\ classify_type \in {"trend", "comparison", "ranking", "statistics", "proportion"}
        /\ (classify_query = <<>> \/ NoPatternMatches(classify_query)) =>
               classify_type = "statistics"

\* a text that is not empty and matches no pattern has been classified
C11_Witness ==
    /\ classify_type # "none"
    /\ classify_query # <<>>
    /\ NoPatternMatches(classify_query)

\* C12: when some pattern matches, _pattern_classify returns the category with
\* the highest summed match count, and of several categories with that count
\* the first in the order trend, comparison, ranking, statistics, proportion
C12_HighestScoreFirstInOrderWins ==
    (classify_type # "none" /\ \E k \in 1..5 : CategoryScore(k, classify_query) > 0) =>
        \E k \in 1..5 :
            /\ classify_type = <<"trend", "comparison", "ranking", "statistics", "proportion">>[k]
            /\ \A j \in 1..5 : CategoryScore(j, classify_query) <= CategoryScore(k, classify_query)
            /\ \A j \in 1..(k - 1) :
                   CategoryScore(j, classify_query) < CategoryScore(k, classify_query)

\* a text in which a later category ties with the returned one for a positive
\* maximum has been classified
C12_Witness ==
    /\ classify_type # "none"
    /\ \E k \in 1..5 :
           /\ classify_type = <<"trend", "comparison", "ranking", "statistics", "proportion">>[k]
           /\ CategoryScore(k, classify_query) > 0
           /\ \E j \in (k + 1)..5 :
                  CategoryScore(j, classify_query) = CategoryScore(k, classify_query)

-----------------------------------------------------------------------------
(* Properties of the counter under concurrent calls *)

\* C26: under every interleaving of concurrent parse_query_intent calls the
\* daily ceiling is respected: api_call_count never exceeds 1000, and no more
\* than 1000 refiner calls are issued
C26_CeilingRespectedUnderInterleaving ==
    /\ api_call_count <= 1000
    /\ refiner_calls.issued <= 1000

\* the part of the ceiling that is about the counter alone
CounterStaysAtOrBelowCeiling == api_call_count <= 1000

\* C28: under any interleaving of concurrent requests the history has as many
\* entries as the counter says, its i-th entry records call_count i, the counter
\* never decreases, and get_api_statistics reports remaining_calls as
\* max(0, 1000 - api_call_count)
C28_CounterAndHistoryConsistent ==
    /\ [](/\ Len(api_cost_tracking) = api_call_count
          /\ \A i \in 1..Len(api_cost_tracking) : api_cost_tracking[i].call_count = i
          /\ get_api_statistics.total_calls = api_call_count
          /\ get_api_statistics.remaining_calls =
                 (IF api_call_count >= 1000 THEN 0 ELSE 1000 - api_call_count))
    /\ [][api_call_count' >= api_call_count]_vars

\* two requests were in flight together just below the ceiling and both of
\* their calls are recorded: the counter is past the ceiling and the last
\* entry of the history carries it
C28_Witness ==
    /\ api_call_count = daily_limit + 1
    /\ Len(api_cost_tracking) = daily_limit + 1
    /\ api_cost_tracking[Len(api_cost_tracking)].call_count = api_call_count
    /\ get_api_statistics.remaining_calls = 0

-----------------------------------------------------------------------------
(* Properties of one parse_query_intent call and its refiner *)

\* C19: within one parse_query_intent call the refiner is called at most once:
\* a step issues a refiner call only by taking an idle call to its await, and a
\* call whose refiner failed or timed out ends in that step with what the local
\* parse returns, with no further refiner call
C19_RefinerCalledAtMostOncePerParse ==
    [][/\ refiner_calls'.issued <= refiner_calls.issued + 1
       /\ refiner_calls'.issued > refiner_calls.issued =>
              \E r \in Requests : parse[r].pc = "idle" /\ parse'[r].pc = "awaiting"
       /\ \A r \in Requests :
              (parse[r].pc = "awaiting" /\ parse'[r] # parse[r]) =>
                  /\ parse'[r].pc = "done"
                  /\ refiner_calls'.issued = refiner_calls.issued
                  /\ refiner_calls'.failed > refiner_calls.failed =>
                         parse'[r].outcome \in
                             {ParseReturned(it) :
                                 it \in parse_locally(parse[r].natural_query).intents}
      ]_vars

\* a call whose one refiner call timed out has returned the local intent
C19_Witness ==
    \E r \in Requests :
        /\ parse[r].pc = "done"
        /\ parse[r].response.kind = "timeout"
        /\ refiner_calls = [issued |-> 1, failed |-> 1]
        /\ parse[r].outcome \in
               {ParseReturned(it) : it \in parse_locally(parse[r].natural_query).intents}

-----------------------------------------------------------------------------
(* Properties of ChartRecommender *)

\* the call in progress was given a preview with at least one row, the first
\* of them a record
HasRecordPreview ==
    /\ chart_result # "none"
    /\ chart_preview.given
    /\ Len(chart_preview.rows) > 0
    /\ chart_preview.rows[1].is_dict

\* C15: without a data preview (None or empty) recommend_chart returns the base
\* rule of the category: trend line, comparison bar, ranking bar, statistics
\* number, proportion pie, and table for a category the rule table lacks
C15_NoPreviewGivesBaseRule ==
    (chart_result # "none" /\ (~chart_preview.given \/ chart_preview.rows = <<>>)) =>
        /\ chart_query_type = "trend" => chart_result = "line"
        /\ chart_query_type = "comparison" => chart_result = "bar"
        /\ chart_query_type = "ranking" => chart_result = "bar"
        /\ chart_query_type = "statistics" => chart_result = "number"
        /\ chart_query_type = "proportion" => chart_result = "pie"
        /\ chart_query_type \notin {"trend", "comparison", "ranking", "statistics", "proportion"}
               => chart_result = "table"

\* a category outside the rule table got its chart with an empty preview
C15_Witness ==
    /\ chart_result = "table"
    /\ chart_query_type = "forecast"
    /\ chart_preview.given
    /\ chart_preview.rows = <<>>

\* C16: for every category and row count, a preview whose first row has a
\* column name containing a time keyword and a numeric or numeric-string value
\* selects line, before the base rule and the row-count rules
C16_TimeSeriesSelectsLine ==
    (/\ HasRecordPreview
     /\ _has_time_series_data(chart_preview.rows[1])
     /\ _has_numeric_data(chart_preview.rows[1])) =>
        chart_result = "line"

\* line was selected for a comparison over more than 20 rows whose first row
\* has a time column, a categorical value and a numeric value
C16_Witness ==
    /\ HasRecordPreview
    /\ chart_result = "line"
    /\ chart_query_type = "comparison"
    /\ Len(chart_preview.rows) > 20
    /\ _has_time_series_data(chart_preview.rows[1])
    /\ _has_categorical_data(chart_preview.rows[1])
    /\ _has_numeric_data(chart_preview.rows[1])

\* C17: for a preview without a time column whose first row has a non-numeric
\* string value and a numeric value, the chart depends on the row count alone:
\* pie up to 5 rows, bar from 6 to 20, table above 20
C17_CategoricalByRowCount ==
    (/\ HasRecordPreview
     /\ ~_has_time_series_data(chart_preview.rows[1])
     /\ _has_categorical_data(chart_preview.rows[1])
     /\ _has_numeric_data(chart_preview.rows[1])) =>
        /\ Len(chart_preview.rows) <= 5 => chart_result = "pie"
        /\ (6 <= Len(chart_preview.rows) /\ Len(chart_preview.rows) <= 20) => chart_result = "bar"
        /\ Len(chart_preview.rows) > 20 => chart_result = "table"

\* bar was selected for a trend over exactly 20 categorical rows
C17_Witness ==
    /\ HasRecordPreview
    /\ chart_result = "bar"
    /\ chart_query_type = "trend"
    /\ Len(chart_preview.rows) = 20
    /\ ~_has_time_series_data(chart_preview.rows[1])
    /\ _has_categorical_data(chart_preview.rows[1])
    /\ _has_numeric_data(chart_preview.rows[1])

\* C18: recommend_chart never raises: its result is always one of line, bar,
\* pie, number, table, and it is table when the refinement fails on a preview
\* whose rows are not records
C18_RecommendChartNeverRaises ==
    chart_result # "none" =>
        /\ chart_result \in {"line", "bar", "pie", "number", "table"}
        /\ (/\ chart_preview.given
            /\ Len(chart_preview.rows) > 0
            /\ ~chart_preview.rows[1].is_dict) => chart_result = "table"

\* a trend with a preview whose rows are not records got table
C18_Witness ==
    /\ chart_result = "table"
    /\ chart_query_type = "trend"
    /\ chart_preview.given
    /\ Len(chart_preview.rows) > 0
    /\ ~chart_preview.rows[1].is_dict

-----------------------------------------------------------------------------
(* Properties of AIEngine.process_query *)

\* C25: generate_sql, whether it returns or raises, and recommend_chart leave
\* the intent and the schema descriptor as they were given: from the call of
\* generate_sql to the end of the request the generator holds the intent of the
\* engine and mock_schema, no step of a stage changes them, and the
\* recommender and the QueryResult get that same intent
C25_StagesLeaveInputsUnchanged ==
    [][/\ (gen_pc # "idle" /\ gen_pc' # "idle") =>
              (intent' = intent /\ schema_info' = schema_info)
       /\ (process.pc \in {"generating", "done"} /\ process'.pc # "idle") =>
              /\ process'.intent = process.intent
              /\ intent' = intent_as_str(process.intent)
              /\ schema_info' = mock_schema
       /\ (process.pc = "generating" /\ process'.pc = "done"
              /\ process'.outcome.kind = "return") =>
              /\ chart_query_type' = process.intent.query_type
              /\ process'.outcome.intent = process.intent
      ]_vars

\* a request whose intent has dimensions, a metric, a time range and filters
\* has gone through generate_sql and recommend_chart
C25_Witness ==
    /\ process.pc = "done"
    /\ process.outcome.kind = "return"
    /\ Len(process.intent.dimensions) > 0
    /\ Len(process.intent.metrics) > 0
    /\ process.intent.time_range # None
    /\ intent = intent_as_str(process.intent)
    /\ chart_result # "none"

\* a request whose generate_sql raised still has its intent
C25_WitnessRaised ==
    /\ process.pc = "done"
    /\ process.outcome.kind = "raise"
    /\ Len(process.intent.dimensions) > 0
    /\ intent = intent_as_str(process.intent)

\* the error types the stages and the engine give their QueryErrors
StageErrorTypes ==
    {"INTENT_PARSING_ERROR", "SQL_GENERATION_ERROR", "SQL_SAFETY_ERROR", "PROCESSING_ERROR"}

\* C27: process_query runs intent parsing, then SQL generation, then chart
\* recommendation; it ends either with a QueryResult built from the outputs of
\* all three stages or with a QueryError; the QueryError of a stage reaches the
\* caller with its error_type and no later stage runs; any other exception
\* reaches the caller as the QueryError of type PROCESSING_ERROR
C27_StagesInOrderResultOrError ==
    [][/\ (gen_pc = "idle" /\ gen_pc' # "idle") =>
              /\ process.pc = "parsing"
              /\ parse[EngineRequest].pc = "done"
              /\ parse[EngineRequest].outcome.kind = "return"
              /\ chart_result = "none"
       /\ (chart_result = "none" /\ chart_result' # "none") =>
              /\ process.pc = "generating"
              /\ gen_pc = "done"
              /\ sql_outcome.kind = "return"
       /\ (process.pc # "done" /\ process'.pc = "done") =>
              \/ /\ process'.outcome.kind = "return"
                 /\ parse[EngineRequest].outcome.kind = "return"
                 /\ process'.outcome.intent = parse[EngineRequest].outcome.intent
                 /\ sql_outcome.kind = "return"
                 /\ process'.outcome.sql_query = sql_outcome
                 /\ chart_result' # "none"
                 /\ process'.outcome.recommended_chart = chart_result'
              \/ /\ process'.outcome.kind = "raise"
                 /\ sql_outcome.kind = "raise"
                 /\ process'.outcome.error_type = sql_outcome.error_type
                 /\ chart_result' = "none"
       /\ \A error_type \in StageErrorTypes :
              process_query_except(RaisedQueryError(error_type)) = QueryError(error_type)
       /\ process_query_except(RaisedException) = QueryError("PROCESSING_ERROR")
      ]_vars

\* generate_sql raised its QueryError after the parser returned: the caller has
\* that error and the recommender was not called
C27_Witness ==
    /\ process.pc = "done"
    /\ process.outcome.kind = "raise"
    /\ process.outcome.error_type = "SQL_GENERATION_ERROR"
    /\ parse[EngineRequest].outcome.kind = "return"
    /\ chart_result = "none"

\* all three stages returned and the caller has the QueryResult
C27_WitnessResult ==
    /\ process.pc = "done"
    /\ process.outcome.kind = "return"
    /\ process.outcome.sql_query.kind = "return"
    /\ process.outcome.recommended_chart = chart_result
    /\ chart_result # "none"

\* C30: in every QueryResult of process_query recommended_chart is the base-rule
\* chart of the query_type of its intent (LINE, BAR, BAR, NUMBER, PIE): the
\* recommender was called without a preview, and the rows of the result have no
\* part in the choice
C30_PipelineChartIsBaseRule ==
    process.outcome.kind = "return" =>
        /\ process.outcome.recommended_chart =
               (CASE process.outcome.intent.query_type = "trend"      -> "line"
                  [] process.outcome.intent.query_type = "comparison" -> "bar"
                  [] process.outcome.intent.query_type = "ranking"    -> "bar"
                  [] process.outcome.intent.query_type = "statistics" -> "number"
                  [] process.outcome.intent.query_type = "proportion" -> "pie")
        /\ chart_preview = NoPreview
        /\ process.outcome.data = _generate_mock_data(process.outcome.intent.query_type)

\* a result whose rows, had they been the preview, would have changed the
\* chart: four ranking rows with a name and a score give PIE, the result has BAR
C30_Witness ==
    /\ process.outcome.kind = "return"
    /\ process.outcome.intent.query_type = "ranking"
    /\ process.outcome.recommended_chart = "bar"
    /\ Len(process.outcome.data) > 0
    /\ recommend_chart("ranking", [given |-> TRUE, rows |-> process.outcome.data]) = "pie"

\* C20: processing one request issues at most one call to the external
\* completion service, over intent parsing and statement generation together
C20_AtMostOneExternalCallPerRequest ==
    process.external_calls <= 1

-----------------------------------------------------------------------------
(* Properties of _preprocess_query *)

\* the text has two whitespace characters in a row
HasWhitespaceRun(t) ==
    \E i \in 1..(Len(t) - 1) : t[i] \in whitespace /\ t[i + 1] \in whitespace

\* the text has a character of the punctuation class
HasPunctuation(t) == \E i \in 1..Len(t) : t[i] \in punctuation_chars

\* the text has one of the time words of the table
HasTimeWord(t) == \E k \in 1..Len(time_mappings) : Contains(t, time_mappings[k][1])

\* C21: the text _preprocess_query returns is in normal form for every input:
\* no two whitespace characters in a row, no character of the punctuation
\* class, no time word of the table
C21_PreprocessedIsNormalForm ==
    (call.fn = "_preprocess_query" /\ call.done) =>
        /\ ~HasWhitespaceRun(call.result)
        /\ ~HasPunctuation(call.result)
        /\ ~HasTimeWord(call.result)

\* the parts of the normal form that do hold of every returned text: no
\* punctuation and no time word are left
PreprocessedHasNoPunctuationNoTimeWord ==
    (call.fn = "_preprocess_query" /\ call.done) =>
        /\ ~HasPunctuation(call.result)
        /\ ~HasTimeWord(call.result)

=============================================================================
